---- MODULE Spec2Model ----
(***************************************************************************)
(* Lyric editing model of the BeatLyrics front-end.                        *)
(*                                                                         *)
(*  - EditorPage  (src/app/editor/[generationId]/page.tsx): the document   *)
(*    fetched for a generation, its line/title edits and the unsaved flag. *)
(*  - LyricEditor (src/unnamed/part_002): the flat line list, the line     *)
(*    selection and the bar range handed to onRegenerateSection.           *)
(*  - regenerateRange: the splice of regenerated lines into a document,    *)
(*    which the repository only declares (LyricEditorProps) and calls.     *)
(*  - UploadPage (src/unnamed/part_003) with its RightsConfirmationModal   *)
(*    (src/unnamed/part_000): file drops, URL submissions and the requests *)
(*    they issue.                                                          *)
(*  - JobStatusPage (src/app/job/[id]/page.tsx): the status and features   *)
(*    requests of fetchJobStatus, the polling effect and the Refresh       *)
(*    button, against a backend whose job status only moves forward.       *)
(*  - GeneratePage (src/app/generate/[jobId]/page.tsx): the presets, the   *)
(*    explicit switch and handleGenerate with its request.                 *)
(*  - the proxy route handlers (src/app/api/**/route.ts), each applied to  *)
(*    a request and to what the backend does with the forwarded request.   *)
(*  - RegisterForm (src/unnamed/part_001): the form fields, handleSubmit   *)
(*    with its validation, the registration request and localStorage.      *)
(*                                                                         *)
(* A text is a sequence of one-character strings.  An optional value is a  *)
(* sequence of length 0 (null / undefined) or 1.                           *)
(***************************************************************************)
EXTENDS Integers, Sequences, FiniteSets, TLC

VARIABLES
    \* ---- EditorPage ----------------------------------------------------
    generationId,       \* params.generationId
    generation,         \* useState<Generation | null>
    audioFeatures,      \* useState<any>
    loading,            \* useState(true)
    error,              \* useState<string | null>
    editedLyrics,       \* useState<GeneratedLyrics | null>
    hasUnsavedChanges,  \* useState(false)
    heap,               \* the sections arrays reachable from the two states above
    fetches,            \* fetchGeneration calls suspended at an await
    last,               \* the last EditorPage operation, its arguments and how it ended
    \* ---- LyricEditor ---------------------------------------------------
    lines,              \* props.lines
    selectedLines,      \* useState<string[]>([])
    regenCall,          \* arguments of the last onRegenerateSection call
    leLast,             \* the last LyricEditor operation, its arguments and how it ended
    \* ---- regenerateRange -----------------------------------------------
    doc,                \* the document handed to regenerateRange
    regenLast,          \* the last regenerateRange call, its arguments and how it ended
    \* ---- the functions of the two editors, applied to an input ----------
    counted,            \* a text and what the two countSyllables return for it
    accuracy,           \* a line and what getSyllableAccuracy returns for it
    current,            \* lines, currentTime and what getCurrentLine returns
    \* ---- UploadPage and its RightsConfirmationModal ----------------------
    uploadProgress,     \* useState(0)
    isUploading,        \* useState(false)
    uploadError,        \* useState<string | null>(null)
    uploadSuccess,      \* useState<string | null>(null)
    url,                \* useState("")
    showRightsModal,    \* useState(false)
    pendingUrl,         \* useState("")
    hasRights,          \* modal: useState(false)
    understands,        \* modal: useState(false)
    requests,           \* fetch calls of the page awaiting their response
    timers,             \* job ids of the pending setTimeout redirects
    route,              \* the page the router shows
    upLast,             \* the last UploadPage operation, its arguments and how it ended
    \* ---- JobStatusPage ---------------------------------------------------
    backend,            \* the status of the job at the backend
    jobStatus,          \* useState<JobStatus | null>(null)
    jobFeatures,        \* audioFeatures: useState<AudioFeatures | null>(null)
    jobLoading,         \* loading: useState(true)
    jobError,           \* error: useState<string | null>(null)
    interval,           \* jobStatus?.status as the running effect closed over it
    polls,              \* fetchJobStatus calls suspended at an await
    jobLast,            \* the last JobStatusPage step and how it ended
    \* ---- GeneratePage ----------------------------------------------------
    isGenerating,       \* useState(false)
    generationProgress, \* useState(0)
    genError,           \* error: useState<string | null>(null)
    genre,              \* useState("hip-hop")
    mood,               \* useState("energetic")
    explicit,           \* useState(false)
    language,           \* useState("en")
    rhymeScheme,        \* useState("AABB")
    syllablesPerBeat,   \* useState([1.4]), in tenths
    genRequest,         \* the generation request awaiting its response
    genRoute,           \* the page the router shows
    genLast,            \* the last GeneratePage step and how it ended
    \* ---- proxy route handlers --------------------------------------------
    proxied,            \* a request, the backend's behaviour and the handler's answer
    \* ---- RegisterForm ----------------------------------------------------
    formData,           \* useState({ username, email, password, confirmPassword })
    isLoading,          \* useState(false)
    regError,           \* error: useState("")
    localStorage,       \* window.localStorage: the three keys the form writes
    regRequest,         \* the registration request awaiting its response
    regRoute,           \* the page the router shows
    regLast             \* the last RegisterForm step and how it ended

epVars == <<generationId, generation, audioFeatures, loading, error, editedLyrics,
            hasUnsavedChanges, heap, fetches, last>>
leVars == <<lines, selectedLines, regenCall, leLast>>
rgVars == <<doc, regenLast>>
fnVars == <<counted, accuracy, current>>
upVars == <<uploadProgress, isUploading, uploadError, uploadSuccess, url, showRightsModal,
            pendingUrl, hasRights, understands, requests, timers, route, upLast>>
jpVars == <<backend, jobStatus, jobFeatures, jobLoading, jobError, interval, polls, jobLast>>
gpParams == <<genre, mood, explicit, language, rhymeScheme, syllablesPerBeat>>
gpVars == <<isGenerating, generationProgress, genError, gpParams, genRequest, genRoute, genLast>>
prVars == <<proxied>>
rfVars == <<formData, isLoading, regError, localStorage, regRequest, regRoute, regLast>>
pgVars == <<jpVars, gpVars, prVars, rfVars>>
vars == <<epVars, leVars, rgVars, fnVars, upVars, pgVars>>

\* what the actions of one component leave alone: the other components
edVars == <<epVars, leVars, rgVars, fnVars, upVars>>
epRest == <<leVars, rgVars, fnVars, upVars, pgVars>>
leRest == <<epVars, rgVars, fnVars, upVars, pgVars>>
rgRest == <<epVars, leVars, fnVars, upVars, pgVars>>
fnRest == <<epVars, leVars, rgVars, upVars, pgVars>>
upRest == <<epVars, leVars, rgVars, fnVars, pgVars>>
jpRest == <<edVars, gpVars, prVars, rfVars>>
gpRest == <<edVars, jpVars, prVars, rfVars>>
prRest == <<edVars, jpVars, gpVars, rfVars>>
rfRest == <<edVars, jpVars, gpVars, prVars>>

----------------------------------------------------------------------------
(* Bounds of the model *)

\* fetchGeneration calls that may be suspended at the same time
MaxInflight == 1

----------------------------------------------------------------------------
(* Values *)

Null == <<>>
Some(x) == <<x>>
IsNull(o) == o = <<>>
Val(o) == o[1]

\* an optional number that is not there (actual_syllables?, timestamp_start?, ...)
Absent == -1

\* Math.min() of no arguments is Infinity and Math.max() of none is -Infinity:
\* numbers beyond every bar index (TLC's integers are 32 bits wide)
Infinity == 1000000
NegInfinity == -1000000

RECURSIVE SumSeq(_)
SumSeq(s) == IF s = <<>> THEN 0 ELSE Head(s) + SumSeq(Tail(s))

RECURSIVE Flatten(_)
Flatten(ss) == IF ss = <<>> THEN <<>> ELSE Head(ss) \o Flatten(Tail(ss))

Max2(a, b) == IF a >= b THEN a ELSE b

----------------------------------------------------------------------------
(* Characters *)

LowerSeq == <<"a","b","c","d","e","f","g","h","i","j","k","l","m",
              "n","o","p","q","r","s","t","u","v","w","x","y","z">>
UpperSeq == <<"A","B","C","D","E","F","G","H","I","J","K","L","M",
              "N","O","P","Q","R","S","T","U","V","W","X","Y","Z">>

\* String.prototype.toLowerCase on one character
LowerChar(c) ==
    IF \E i \in 1..26 : UpperSeq[i] = c
    THEN LowerSeq[CHOOSE i \in 1..26 : UpperSeq[i] = c]
    ELSE c

toLowerCase(text) == [i \in 1..Len(text) |-> LowerChar(text[i])]

\* the character class [a-z]
ClassAZ == {LowerSeq[i] : i \in 1..26}
\* the character class [aeiouy]
ClassAeiouy == {"a","e","i","o","u","y"}

\* text.match(/<class>+/g): the maximal runs of characters of the class, in order
RECURSIVE MatchRuns(_, _, _)
MatchRuns(text, class, run) ==
    IF text = <<>>
    THEN IF run = <<>> THEN <<>> ELSE <<run>>
    ELSE IF Head(text) \in class
         THEN MatchRuns(Tail(text), class, Append(run, Head(text)))
         ELSE (IF run = <<>> THEN <<>> ELSE <<run>>) \o MatchRuns(Tail(text), class, <<>>)

----------------------------------------------------------------------------
(* The two syllable counters *)

\* word.match(/[aeiouy]+/g)?.length || 1   (editor page, line 93)
WordSyllables(word) ==
    LET n == Len(MatchRuns(word, ClassAeiouy, <<>>))
    IN  IF n = 0 THEN 1 ELSE n

\* words.reduce((count, word) => count + Math.max(1, syllables), 0)
RECURSIVE ReduceWords(_, _)
ReduceWords(words, count) ==
    IF words = <<>> THEN count
    ELSE ReduceWords(Tail(words), count + Max2(1, WordSyllables(Head(words))))

\* EditorPage.countSyllables
EP_countSyllables(text) ==
    ReduceWords(MatchRuns(toLowerCase(text), ClassAZ, <<>>), 0)

\* mutant of LE_isVowel: the vowel string lacks e and E
LE_isVowel_NoE(c) == c \in {"a","i","o","u","y","A","I","O","U","Y"}

\* "aeiouyAEIOUY".includes(c)
LE_isVowel(c) == c \in {"a","e","i","o","u","y","A","E","I","O","U","Y"}

\* the for loop of LyricEditor.countSyllables
RECURSIVE LE_loop(_, _, _)
LE_loop(text, count, previousWasVowel) ==
    IF text = <<>> THEN count
    ELSE LET isVowel == LE_isVowel(Head(text))
         IN  LE_loop(Tail(text),
                     IF isVowel /\ ~previousWasVowel THEN count + 1 ELSE count,
                     isVowel)

\* text.toLowerCase().endsWith("e")
EndsWithE(text) == Len(text) > 0 /\ toLowerCase(text)[Len(text)] = "e"

\* mutant of LE_countSyllables: the silent-e rule is left out
LE_countSyllables_NoSilentE(text) == Max2(1, LE_loop(text, 0, FALSE))

\* LyricEditor.countSyllables
LE_countSyllables(text) ==
    LET count == LE_loop(text, 0, FALSE)
        afterSilentE == IF EndsWithE(text) /\ count > 1 THEN count - 1 ELSE count
    IN  Max2(1, afterSilentE)

----------------------------------------------------------------------------
(* EditorPage: the documents the backend serves *)

\* the generations the route parameter names
GenIds == {1, 2}

\* interface LyricLine
LyricLine(idx, text, target, rhyme, bar, actual) ==
    [line_index |-> idx, text |-> text, syllable_target |-> target, rhyme_tag |-> rhyme,
     suggested_bar_start |-> bar, timestamp_start |-> 2 * bar, timestamp_end |-> 2 * bar + 2,
     actual_syllables |-> actual]

T_the  == <<"t","h","e">>
T_hiyo == <<"h","i"," ","y","o">>
T_make == <<"m","a","k","e">>
T_oh   == <<"O","h">>

\* the sections of the document of generation g, as response.json() delivers them;
\* the stored counts of a served document are those of the syllable heuristic
ServedSections(g) ==
    IF g = 1
    THEN << [name |-> "verse", bars |-> <<0, 1>>,
             lines |-> << LyricLine(0, T_the, 1, "A", 0, LE_countSyllables(T_the)),
                          LyricLine(1, T_hiyo, 2, "B", 1, LE_countSyllables(T_hiyo)) >>],
            [name |-> "chorus", bars |-> <<2>>,
             lines |-> << LyricLine(0, T_oh, 2, "A", 2, LE_countSyllables(T_oh)) >>] >>
    ELSE << [name |-> "intro", bars |-> <<0>>,
             lines |-> << LyricLine(0, T_oh, 1, "A", 0, LE_countSyllables(T_oh)) >>] >>

AllLines(sections) == Flatten([i \in 1..Len(sections) |-> sections[i].lines])

TotalActual(sections) ==
    LET ls == AllLines(sections)
    IN  SumSeq([i \in 1..Len(ls) |-> ls[i].actual_syllables])

\* metadata of a served document: actual_total_syllables is optional
ServedMetadata(g) ==
    [estimated_total_syllables |-> TotalActual(ServedSections(g)),
     actual_total_syllables |->
         IF g = 1 THEN TotalActual(ServedSections(g)) ELSE Absent,
     total_lines |-> Len(AllLines(ServedSections(g)))]

ServedTitle(g) == IF g = 1 THEN "Song A" ELSE "Song B"

\* data.job_id: only generation 1 carries a job
ServedJobId(g) == IF g = 1 THEN Some(g) ELSE Null

\* texts and titles the user types
EditTexts == {<<>>, T_make}
EditTitles == {"New"}

\* section and line indices a caller passes (0-based, as in the code)
SectionArgs == 0..2
LineArgs == 0..1

----------------------------------------------------------------------------
(* EditorPage: state *)

Refs == {1, 2}

\* the GeneratedLyrics object: its sections array is held by reference
LyricsObj(title, ref, metadata) == [title |-> title, sections |-> ref, metadata |-> metadata]

\* a GeneratedLyrics object with its sections array read through the heap
Deref(h, obj) == [title |-> obj.title, sections |-> h[obj.sections], metadata |-> obj.metadata]

\* the current document as a value (null while nothing is loaded)
EditedDoc == IF IsNull(editedLyrics) THEN Null ELSE Some(Deref(heap, Val(editedLyrics)))
\* generation.lyrics as a value
GenerationDoc == IF IsNull(generation) THEN Null ELSE Some(Deref(heap, Val(generation).lyrics))

\* last: the operation that ran last, its arguments and how it ended;
\* repeated says that the operation before it was the same call with the same end
NoOp == [op |-> "none", sectionIndex |-> 0, lineIndex |-> 0, text |-> <<>>, title |-> "",
         result |-> "none", repeated |-> FALSE]
Op(name, result) == [NoOp EXCEPT !.op = name, !.result = result]
Record(call) == last' = [call EXCEPT !.repeated = ([last EXCEPT !.repeated = FALSE] = call)]

\* useState initial values; the effect of line 60 has called fetchGeneration once
EPInit ==
    /\ generationId \in GenIds
    /\ generation = Null
    /\ audioFeatures = Null
    /\ loading = TRUE
    /\ error = "null"
    /\ editedLyrics = Null
    /\ hasUnsavedChanges = FALSE
    /\ heap = <<>>
    /\ fetches = << [id |-> generationId, pc |-> "generation", job |-> Null] >>
    /\ last = NoOp

RemoveAt(s, i) == [j \in 1..(Len(s) - 1) |-> IF j < i THEN s[j] ELSE s[j + 1]]

----------------------------------------------------------------------------
(* EditorPage: fetchGeneration (lines 64-87), one action per resumption *)

\* useEffect(() => { fetchGeneration() }, [params.generationId]):
\* the route parameter changes and the effect starts another fetch
ChangeGenerationId(g) ==
    /\ g # generationId
    /\ Len(fetches) < MaxInflight
    /\ generationId' = g
    /\ fetches' = Append(fetches, [id |-> g, pc |-> "generation", job |-> Null])
    /\ Record(Op("changeGenerationId", "ok"))
    /\ UNCHANGED <<epRest, generation, audioFeatures, loading, error, editedLyrics,
                   hasUnsavedChanges, heap>>

\* lines 70-72: setGeneration(data); setEditedLyrics(data.lyrics).
\* data is a fresh object graph; both states hold the same lyrics object.
StoreFetched(g, ref) ==
    LET lyrics == LyricsObj(ServedTitle(g), ref, ServedMetadata(g))
    IN  /\ heap' = (ref :> ServedSections(g))
        /\ generation' = Some([generation_id |-> g, job_id |-> ServedJobId(g), lyrics |-> lyrics])
        /\ editedLyrics' = Some(lyrics)

\* the generation response is OK (lines 66-81)
FetchGenerationOk(i) ==
    /\ i \in 1..Len(fetches)
    /\ fetches[i].pc = "generation"
    /\ LET g == fetches[i].id
           ref == CHOOSE r \in Refs : r \notin DOMAIN heap
       IN  /\ StoreFetched(g, ref)
           /\ IF ~IsNull(ServedJobId(g))
              THEN \* suspended at the features request
                   /\ fetches' = [fetches EXCEPT ![i] = [@ EXCEPT !.pc = "features",
                                                                  !.job = ServedJobId(g)]]
                   /\ UNCHANGED loading
              ELSE \* finally
                   /\ fetches' = RemoveAt(fetches, i)
                   /\ loading' = FALSE
    /\ Record(Op("fetchGenerationOk", IF hasUnsavedChanges THEN "dirty" ELSE "clean"))
    /\ UNCHANGED <<epRest, generationId, audioFeatures, error, hasUnsavedChanges>>

\* the generation response is not OK, or the request rejects: catch and finally
FetchGenerationFail(i) ==
    /\ i \in 1..Len(fetches)
    /\ fetches[i].pc = "generation"
    /\ error' = "Failed to load generation"
    /\ loading' = FALSE
    /\ fetches' = RemoveAt(fetches, i)
    /\ Record(Op("fetchGenerationFail", "error"))
    /\ UNCHANGED <<epRest, generationId, generation, audioFeatures, editedLyrics,
                   hasUnsavedChanges, heap>>

\* the features response (lines 76-80): OK stores it, not OK is ignored,
\* a rejected request reaches the catch block
FeaturesResponse(i, outcome) ==
    /\ i \in 1..Len(fetches)
    /\ fetches[i].pc = "features"
    /\ audioFeatures' = IF outcome = "ok" THEN fetches[i].job ELSE audioFeatures
    /\ error' = IF outcome = "throw" THEN "Failed to load generation" ELSE error
    /\ loading' = FALSE
    /\ fetches' = RemoveAt(fetches, i)
    /\ Record(Op("featuresResponse", outcome))
    /\ UNCHANGED <<epRest, generationId, generation, editedLyrics, hasUnsavedChanges, heap>>

----------------------------------------------------------------------------
(* EditorPage: the edits (lines 98-117) *)

\* mutant of AssignLine: the edit also clears the rhyme tag
AssignLine_ClearsRhyme(line, newText) ==
    [line EXCEPT !.text = newText, !.actual_syllables = EP_countSyllables(newText),
                 !.rhyme_tag = ""]

\* mutant of AssignLine: the count is added to the stored one
AssignLine_Accumulates(line, newText) ==
    [line EXCEPT !.text = newText,
                 !.actual_syllables = line.actual_syllables + EP_countSyllables(newText)]

\* lines 103-104: line.text = newText; line.actual_syllables = countSyllables(newText)
AssignLine(line, newText) ==
    [line EXCEPT !.text = newText, !.actual_syllables = EP_countSyllables(newText)]

\* line 102: newLyrics.sections[sectionIndex].lines[lineIndex] is an object
LineExists(sections, sectionIndex, lineIndex) ==
    /\ sectionIndex + 1 \in 1..Len(sections)
    /\ lineIndex + 1 \in 1..Len(sections[sectionIndex + 1].lines)

\* the sections array after the assignments of lines 103-104: the line object is
\* the one the array already holds, so the array itself is what changes
WriteLine(sections, sectionIndex, lineIndex, newText) ==
    [sections EXCEPT ![sectionIndex + 1].lines[lineIndex + 1] = AssignLine(@, newText)]

\* mutant of ShallowCopy: the copy starts from fresh metadata
ShallowCopy_FreshMetadata(obj) ==
    LyricsObj(obj.title, obj.sections, [obj.metadata EXCEPT !.total_lines = 0])

\* line 101: { ...editedLyrics } copies title, the sections reference and metadata
ShallowCopy(obj) == LyricsObj(obj.title, obj.sections, obj.metadata)

updateLineText(sectionIndex, lineIndex, newText) ==
    LET args == [NoOp EXCEPT !.op = "updateLineText", !.sectionIndex = sectionIndex,
                             !.lineIndex = lineIndex, !.text = newText]
    IN
    IF IsNull(editedLyrics)
    THEN \* line 99: return
         /\ Record([args EXCEPT !.result = "return"])
         /\ UNCHANGED <<epRest, generationId, generation, audioFeatures, loading, error, editedLyrics,
                        hasUnsavedChanges, heap, fetches>>
    ELSE LET newLyrics == ShallowCopy(Val(editedLyrics))
             ref == newLyrics.sections
         IN  IF ~LineExists(heap[ref], sectionIndex, lineIndex)
             THEN \* lines 102-103 read a property of undefined: TypeError, nothing is set
                  /\ Record([args EXCEPT !.result = "TypeError"])
                  /\ UNCHANGED <<epRest, generationId, generation, audioFeatures, loading, error,
                                 editedLyrics, hasUnsavedChanges, heap, fetches>>
             ELSE /\ heap' = [heap EXCEPT ![ref] = WriteLine(@, sectionIndex, lineIndex, newText)]
                  /\ editedLyrics' = Some(newLyrics)
                  /\ hasUnsavedChanges' = TRUE
                  /\ Record([args EXCEPT !.result = "ok"])
                  /\ UNCHANGED <<epRest, generationId, generation, audioFeatures, loading, error,
                                 fetches>>

updateTitle(newTitle) ==
    LET args == [NoOp EXCEPT !.op = "updateTitle", !.title = newTitle]
    IN
    IF IsNull(editedLyrics)
    THEN \* line 111: return
         /\ Record([args EXCEPT !.result = "return"])
         /\ UNCHANGED <<epRest, generationId, generation, audioFeatures, loading, error, editedLyrics,
                        hasUnsavedChanges, heap, fetches>>
    ELSE /\ editedLyrics' = Some([ShallowCopy(Val(editedLyrics)) EXCEPT !.title = newTitle])
         /\ hasUnsavedChanges' = TRUE
         /\ Record([args EXCEPT !.result = "ok"])
         /\ UNCHANGED <<epRest, generationId, generation, audioFeatures, loading, error, heap,
                        fetches>>

----------------------------------------------------------------------------
(* EditorPage: persistence.  The page source ends before any save handler; *)
(* the call is modelled from the session state machine of the              *)
(* specification: a successful save returns to Clean, a failed one is      *)
(* surfaced and changes nothing else.                                      *)

Save(succeeds) ==
    /\ ~IsNull(editedLyrics)
    /\ hasUnsavedChanges
    /\ hasUnsavedChanges' = ~succeeds
    /\ Record(Op("save", IF succeeds THEN "ok" ELSE "error"))
    /\ UNCHANGED <<epRest, generationId, generation, audioFeatures, loading, error, editedLyrics,
                   heap, fetches>>

----------------------------------------------------------------------------
(* EditorPage: specification *)

EPNext ==
    \/ \E g \in GenIds : ChangeGenerationId(g)
    \/ \E i \in 1..MaxInflight : FetchGenerationOk(i)
    \/ \E i \in 1..MaxInflight : FetchGenerationFail(i)
    \/ \E i \in 1..MaxInflight, outcome \in {"ok", "notOk", "throw"} : FeaturesResponse(i, outcome)
    \/ \E s \in SectionArgs, l \in LineArgs, t \in EditTexts : updateLineText(s, l, t)
    \/ \E t \in EditTitles : updateTitle(t)
    \/ \E b \in BOOLEAN : Save(b)

----------------------------------------------------------------------------
(* LyricEditor (src/unnamed/part_002, lines 246-335) *)

\* interface LyricLine of the component
EditorLine(id, text, bar, start) ==
    [id |-> id, text |-> text, start_time |-> start, end_time |-> start + 2,
     syllable_count |-> LE_countSyllables(text), rhyme_scheme |-> "A", bar_index |-> bar]

\* the line lists the parent passes as the lines prop: ids are unique in a list
LinesPool ==
    { << EditorLine("a", T_the, 2, 0), EditorLine("b", T_hiyo, 5, 2), EditorLine("c", T_oh, 2, 4) >>,
      << EditorLine("c", T_oh, 3, 0) >>,
      << >> }

LineIds == {"a", "b", "c", "zz"}
LE_EditTexts == {<<>>, T_make}

IdsOf(ls) == {ls[i].id : i \in 1..Len(ls)}

LENoOp == [op |-> "none", lineId |-> "", text |-> <<>>, result |-> "none", repeated |-> FALSE]
LERecord(call) == leLast' = [call EXCEPT !.repeated = ([leLast EXCEPT !.repeated = FALSE] = call)]

LEInit ==
    /\ lines \in LinesPool
    /\ selectedLines = <<>>
    /\ regenCall = Null
    /\ leLast = LENoOp

\* the parent passes another lines prop
ReplaceLines(ls) ==
    /\ ls # lines
    /\ lines' = ls
    /\ LERecord([LENoOp EXCEPT !.op = "replaceLines", !.result = "ok"])
    /\ UNCHANGED <<leRest, selectedLines, regenCall>>

\* line 311: the mapping applied to one line
EditedLine(line, lineId, newText) ==
    IF line.id = lineId
    THEN [line EXCEPT !.text = newText, !.syllable_count = LE_countSyllables(newText)]
    ELSE line

\* lines 309-314; the parent answers onLinesChange by passing the list back as the prop
handleLineEdit(lineId, newText) ==
    LET updatedLines == [i \in 1..Len(lines) |-> EditedLine(lines[i], lineId, newText)]
    IN  /\ lines' = updatedLines
        /\ LERecord([LENoOp EXCEPT !.op = "handleLineEdit", !.lineId = lineId,
                                    !.text = newText, !.result = "onLinesChange"])
        /\ UNCHANGED <<leRest, selectedLines, regenCall>>

\* Array.prototype.filter is SelectSeq

Includes(s, x) == \E i \in 1..Len(s) : s[i] = x

\* lines 327-329, bound to the click on a rendered line
toggleLineSelection(lineId) ==
    /\ lineId \in IdsOf(lines)
    /\ selectedLines' =
           IF Includes(selectedLines, lineId)
           THEN LET Other(id) == id # lineId IN SelectSeq(selectedLines, Other)
           ELSE Append(selectedLines, lineId)
    /\ LERecord([LENoOp EXCEPT !.op = "toggleLineSelection", !.lineId = lineId, !.result = "ok"])
    /\ UNCHANGED <<leRest, lines, regenCall>>

\* Math.min(...xs) and Math.max(...xs)
RECURSIVE MathMin(_)
MathMin(xs) ==
    IF xs = <<>> THEN Infinity
    ELSE LET m == MathMin(Tail(xs)) IN IF Head(xs) < m THEN Head(xs) ELSE m
RECURSIVE MathMax(_)
MathMax(xs) ==
    IF xs = <<>> THEN NegInfinity
    ELSE LET m == MathMax(Tail(xs)) IN IF Head(xs) > m THEN Head(xs) ELSE m

\* line 319: lines.filter((line) => selectedLines.includes(line.id))
SelectedLineObjects ==
    LET Selected(line) == Includes(selectedLines, line.id) IN SelectSeq(lines, Selected)

BarsOf(ls) == [i \in 1..Len(ls) |-> ls[i].bar_index]

\* lines 320-321
SelectedBarRange ==
    [startBar |-> MathMin(BarsOf(SelectedLineObjects)),
     endBar |-> MathMax(BarsOf(SelectedLineObjects))]

\* lines 316-325
handleRegenerateSelected ==
    IF Len(selectedLines) = 0
    THEN /\ LERecord([LENoOp EXCEPT !.op = "handleRegenerateSelected", !.result = "return"])
         /\ UNCHANGED <<leRest, lines, selectedLines, regenCall>>
    ELSE /\ regenCall' = Some(SelectedBarRange)
         /\ selectedLines' = <<>>
         /\ LERecord([LENoOp EXCEPT !.op = "handleRegenerateSelected",
                                     !.result = "onRegenerateSection"])
         /\ UNCHANGED <<leRest, lines>>

LENext ==
    \/ \E ls \in LinesPool : ReplaceLines(ls)
    \/ \E id \in LineIds, t \in LE_EditTexts : handleLineEdit(id, t)
    \/ \E id \in LineIds : toggleLineSelection(id)
    \/ handleRegenerateSelected

----------------------------------------------------------------------------
(* regenerateRange.  LyricEditor only hands the bar range to its parent   *)
(* (onRegenerateSection); the splice itself is modelled from section 4.3  *)
(* of the specification, on the sections of a GeneratedLyrics document.   *)

\* regenerated lines a caller may splice in
MaxNewLines == 2

\* the document regeneration starts from: one line per bar, indices contiguous
RGSections ==
    << [name |-> "verse", bars |-> <<0, 1, 2>>,
        lines |-> [i \in 1..3 |-> LyricLine(i - 1, T_the, 1, "A", i - 1, 1)]],
       [name |-> "chorus", bars |-> <<3>>,
        lines |-> << LyricLine(0, T_oh, 1, "B", 3, 1) >>] >>

\* a line as the generation collaborator returns it
GeneratedLine(bar) == LyricLine(0, T_make, 1, "C", bar, 1)

\* the bar sequences of at most n lines within lo..hi, ascending
RECURSIVE AscendingBars(_, _, _)
AscendingBars(lo, hi, n) ==
    IF n = 0 THEN {<<>>}
    ELSE {<<>>} \cup UNION {{<<b>> \o t : t \in AscendingBars(b, hi, n - 1)} : b \in lo..hi}

\* the line lists the collaborator may return for a range: bars ascending, in range
NewLineBars(minBar, maxBar) == AscendingBars(minBar, maxBar, MaxNewLines)

SeqToSet(s) == {s[i] : i \in 1..Len(s)}

KnownBars(sections) == UNION {SeqToSet(sections[i].bars) : i \in 1..Len(sections)}

\* bar arguments: the known bars and the first bar past them
BarArgs == KnownBars(RGSections) \cup {Cardinality(KnownBars(RGSections))}

InRange(bar, minBar, maxBar) == minBar <= bar /\ bar <= maxBar

\* mutant of Reindex: the indices are left as they were
Reindex_Kept(ls) == ls

\* "reassigns lineIndex contiguously within each affected section"
Reindex(ls) == [i \in 1..Len(ls) |-> [ls[i] EXCEPT !.line_index = i - 1]]

\* number of leading lines that lie before the range
RECURSIVE LeadingBefore(_, _)
LeadingBefore(ls, minBar) ==
    IF ls = <<>> \/ Head(ls).suggested_bar_start >= minBar THEN 0
    ELSE 1 + LeadingBefore(Tail(ls), minBar)

\* "splices the regenerated lines into the bar range, replacing any existing lines
\*  whose suggestedBarStart falls in that range, preserving all lines outside"
SpliceSection(section, minBar, maxBar, regenerated) ==
    LET Outside(line) == ~InRange(line.suggested_bar_start, minBar, maxBar)
        Mine(line) == line.suggested_bar_start \in SeqToSet(section.bars)
        k == LeadingBefore(section.lines, minBar)
        before == SubSeq(section.lines, 1, k)
        after == SelectSeq(SubSeq(section.lines, k + 1, Len(section.lines)), Outside)
    IN  IF \E b \in SeqToSet(section.bars) : InRange(b, minBar, maxBar)
        THEN [section EXCEPT !.lines = Reindex(before \o SelectSeq(regenerated, Mine) \o after)]
        ELSE section

\* "Fails with RangeNotCoveredBySections if [minBar,maxBar] does not fall entirely
\*  within the document's known bars"
RangeCovered(sections, minBar, maxBar) ==
    \A b \in minBar..maxBar : b \in KnownBars(sections)

regenerateRange(sections, minBar, maxBar, regenerated) ==
    [i \in 1..Len(sections) |-> SpliceSection(sections[i], minBar, maxBar, regenerated)]

RGNoOp == [op |-> "none", minBar |-> 0, maxBar |-> 0, newBars |-> <<>>, result |-> "none"]

RGInit ==
    /\ doc = RGSections
    /\ regenLast = RGNoOp

RegenerateRange(minBar, maxBar, newBars) ==
    LET call == [op |-> "regenerateRange", minBar |-> minBar, maxBar |-> maxBar,
                 newBars |-> newBars, result |-> "none"]
        regenerated == [i \in 1..Len(newBars) |-> GeneratedLine(newBars[i])]
    IN  /\ IF RangeCovered(doc, minBar, maxBar)
           THEN /\ doc' = regenerateRange(doc, minBar, maxBar, regenerated)
                /\ regenLast' = [call EXCEPT !.result = "ok"]
           ELSE /\ doc' = doc
                /\ regenLast' = [call EXCEPT !.result = "RangeNotCoveredBySections"]
        /\ UNCHANGED rgRest

\* a call outside the known bars fails whatever lines it is given
RGNext ==
    \E minBar \in BarArgs, maxBar \in BarArgs :
        \E newBars \in (IF RangeCovered(doc, minBar, maxBar)
                         THEN NewLineBars(minBar, maxBar) ELSE {<<>>}) :
            RegenerateRange(minBar, maxBar, newBars)

----------------------------------------------------------------------------
(* The two countSyllables, each applied to a text                          *)
(* (page.tsx lines 89-96, part_002 lines 275-295)                          *)

\* longest text counted
MaxTextLen == 3

\* the characters of the texts: vowels in both cases, y, consonants and a space
TextChars == {"a", "e", "E", "y", "t", "h", " "}

RECURSIVE TextsUpTo(_)
TextsUpTo(n) ==
    IF n = 0 THEN {<<>>}
    ELSE LET shorter == TextsUpTo(n - 1)
         IN  shorter \cup {Append(t, c) : t \in shorter, c \in TextChars}

Texts == TextsUpTo(MaxTextLen)

\* a text before either function has run on it
Uncounted(text) == [text |-> text, page |-> Absent, editor |-> Absent]

\* EditorPage.countSyllables(text) returns
PageCountSyllables ==
    /\ counted.page = Absent
    /\ counted' = [counted EXCEPT !.page = EP_countSyllables(counted.text)]
    /\ UNCHANGED <<fnRest, accuracy, current>>

\* LyricEditor.countSyllables(text) returns
EditorCountSyllables ==
    /\ counted.editor = Absent
    /\ counted' = [counted EXCEPT !.editor = LE_countSyllables(counted.text)]
    /\ UNCHANGED <<fnRest, accuracy, current>>

----------------------------------------------------------------------------
(* EditorPage.getSyllableAccuracy (page.tsx lines 119-127) *)

\* largest syllable count and target of a line handed to getSyllableAccuracy
MaxSyllables == 6

AccTexts == {<<>>, T_the, T_hiyo}

\* the lines handed to getSyllableAccuracy: actual_syllables is optional
AccLines ==
    {LyricLine(0, text, target, "A", 0, actual) :
        text \in AccTexts, target \in 0..MaxSyllables,
        actual \in {Absent} \cup 0..MaxSyllables}

\* Math.abs
Abs(x) == IF x < 0 THEN -x ELSE x

\* line 120: line.actual_syllables || countSyllables(line.text);
\* undefined and 0 are falsy
ActualOrCounted(line) ==
    IF line.actual_syllables = Absent \/ line.actual_syllables = 0
    THEN EP_countSyllables(line.text)
    ELSE line.actual_syllables

getSyllableAccuracy(line) ==
    LET actual == ActualOrCounted(line)
        target == line.syllable_target
        diff == Abs(actual - target)
    IN  IF diff = 0 THEN "perfect"
        ELSE IF diff <= 1 THEN "good"
        ELSE "poor"

Unclassified(line) == [line |-> line, result |-> "none"]

\* getSyllableAccuracy(line) returns
GetSyllableAccuracy ==
    /\ accuracy.result = "none"
    /\ accuracy' = [accuracy EXCEPT !.result = getSyllableAccuracy(accuracy.line)]
    /\ UNCHANGED <<fnRest, counted, current>>

----------------------------------------------------------------------------
(* LyricEditor.getCurrentLine (part_002 lines 331-335) *)

\* most lines in a lines prop handed to getCurrentLine
MaxLines == 2
\* latest start_time / end_time of a line
MaxTime == 3

\* a line of the lines prop with its time range; the id is the position
TimedLine(i, range) ==
    [EditorLine(<<"a", "b", "c", "d">>[i], T_oh, i - 1, range[1]) EXCEPT !.end_time = range[2]]

TimeRanges == {r \in (0..MaxTime) \X (0..MaxTime) : r[1] <= r[2]}

\* the lines props: any ranges, overlapping or not, in any order
TimedLines ==
    UNION {{[i \in 1..n |-> TimedLine(i, rs[i])] : rs \in [1..n -> TimeRanges]} : n \in 0..MaxLines}

\* the currentTime prop
Times == 0..(MaxTime + 1)

\* mutant of CurrentTest: the end of the range is exclusive
CurrentTest_EndExclusive(line, currentTime) ==
    currentTime >= line.start_time /\ currentTime < line.end_time

\* line 332: currentTime >= line.start_time && currentTime <= line.end_time
CurrentTest(line, currentTime) ==
    currentTime >= line.start_time /\ currentTime <= line.end_time

\* Array.prototype.find: the first element that passes the test, else undefined
RECURSIVE Find(_, _)
Find(ls, currentTime) ==
    IF ls = <<>> THEN Null
    ELSE IF CurrentTest(Head(ls), currentTime) THEN Some(Head(ls))
    ELSE Find(Tail(ls), currentTime)

getCurrentLine(ls, currentTime) == Find(ls, currentTime)

Unsought(ls, time) == [lines |-> ls, time |-> time, done |-> FALSE, line |-> Null]

\* const currentLine = getCurrentLine()
GetCurrentLine ==
    /\ ~current.done
    /\ current' = [current EXCEPT !.done = TRUE,
                                  !.line = getCurrentLine(current.lines, current.time)]
    /\ UNCHANGED <<fnRest, counted, accuracy>>

----------------------------------------------------------------------------
(* UploadPage (src/unnamed/part_003, lines 44-165 and 308-313) and         *)
(* RightsConfirmationModal (src/unnamed/part_000, lines 74-167)            *)

\* requests of the page whose responses are looked for at the same time
MaxRequests == 1

\* mutant of allowedTypes: AIFF is let through as well
allowedTypes_WithAiff ==
    <<"audio/wav", "audio/mpeg", "audio/mp4", "audio/aac", "audio/ogg", "audio/flac",
      "audio/x-aiff">>

\* line 60
allowedTypes == <<"audio/wav", "audio/mpeg", "audio/mp4", "audio/aac", "audio/ogg", "audio/flac">>

\* line 67: 200 * 1024 * 1024
MaxFileSize == 200 * 1024 * 1024

\* the files dropped: every allowed type and one audio type that is not allowed,
\* at sizes around the limit
Files ==
    [type : SeqToSet(allowedTypes) \cup {"audio/x-aiff"},
     size : {0, MaxFileSize, MaxFileSize + 1}]

\* what the user types into the URL field: empty, blank, and two addresses
Urls == {<<>>, <<" ">>, <<"a">>, <<"b", " ">>}

\* String.prototype.trim
RECURSIVE TrimStart(_)
TrimStart(u) == IF u # <<>> /\ Head(u) = " " THEN TrimStart(Tail(u)) ELSE u
RECURSIVE TrimEnd(_)
TrimEnd(u) == IF u # <<>> /\ u[Len(u)] = " " THEN TrimEnd(SubSeq(u, 1, Len(u) - 1)) ELSE u
trim(u) == TrimEnd(TrimStart(u))

\* result.job_id of an OK response
JobIds == {"job-1"}

UPNoOp == [op |-> "none", file |-> Null, confirmed |-> FALSE, metadataOnly |-> FALSE,
           request |-> Null, result |-> "none"]
UPOp(name, result) == [UPNoOp EXCEPT !.op = name, !.result = result]

UPInit ==
    /\ uploadProgress = 0
    /\ isUploading = FALSE
    /\ uploadError = Null
    /\ uploadSuccess = Null
    /\ url = <<>>
    /\ showRightsModal = FALSE
    /\ pendingUrl = <<>>
    /\ hasRights = FALSE
    /\ understands = FALSE
    /\ requests = <<>>
    /\ timers = {}
    /\ route = <<"/upload">>
    /\ upLast = UPNoOp

\* the page is mounted and the dialog does not cover it
PageInteractive == route = <<"/upload">> /\ ~showRightsModal
\* the dialog is open (Dialog open={isOpen})
ModalOpen == route = <<"/upload">> /\ showRightsModal

\* lines 54-104 up to the await: the dropzone is disabled while isUploading;
\* acceptedFiles is empty when the dropzone itself rejected the file
onDrop(acceptedFiles) ==
    /\ PageInteractive
    /\ ~isUploading
    /\ IF acceptedFiles = <<>>
       THEN \* line 57
            /\ upLast' = UPOp("onDrop", "return")
            /\ UNCHANGED <<uploadProgress, isUploading, uploadError, requests>>
       ELSE LET file == acceptedFiles[1]
                call == [UPNoOp EXCEPT !.op = "onDrop", !.file = Some(file)]
            IN  IF ~Includes(allowedTypes, file.type)
                THEN \* lines 61-64
                     /\ uploadError' = Some("Unsupported file format. Please use WAV, MP3, M4A, AAC, OGG, or FLAC.")
                     /\ upLast' = [call EXCEPT !.result = "rejected"]
                     /\ UNCHANGED <<uploadProgress, isUploading, requests>>
                ELSE IF file.size > MaxFileSize
                THEN \* lines 67-70
                     /\ uploadError' = Some("File too large. Maximum size is 200MB.")
                     /\ upLast' = [call EXCEPT !.result = "rejected"]
                     /\ UNCHANGED <<uploadProgress, isUploading, requests>>
                ELSE \* lines 72-83
                     LET request == [to |-> "/api/v1/upload", file |-> file]
                     IN  /\ isUploading' = TRUE
                         /\ uploadError' = Null
                         /\ uploadProgress' = 0
                         /\ requests' = Append(requests, request)
                         /\ upLast' = [call EXCEPT !.request = Some(request), !.result = "fetch"]
    /\ UNCHANGED <<upRest, uploadSuccess, url, showRightsModal, pendingUrl, hasRights,
                   understands, timers, route>>

\* lines 85-101: the upload request settles; a response that is not OK and a
\* rejected fetch both reach the catch block
UploadResponse(i, ok, job) ==
    /\ route = <<"/upload">>
    /\ i \in 1..Len(requests)
    /\ requests[i].to = "/api/v1/upload"
    /\ IF ok
       THEN /\ uploadSuccess' = Some([message |-> "File uploaded successfully!", job_id |-> job])
            /\ timers' = timers \cup {job}
            /\ UNCHANGED uploadError
       ELSE /\ uploadError' = Some("Upload failed. Please try again.")
            /\ UNCHANGED <<uploadSuccess, timers>>
    /\ isUploading' = FALSE
    /\ uploadProgress' = 0
    /\ requests' = RemoveAt(requests, i)
    /\ upLast' = UPOp("uploadResponse", IF ok THEN "ok" ELSE "error")
    /\ UNCHANGED <<upRest, url, showRightsModal, pendingUrl, hasRights, understands, route>>

\* line 246: onChange of the URL field, disabled while isUploading
setUrl(value) ==
    /\ PageInteractive
    /\ ~isUploading
    /\ value # url
    /\ url' = value
    /\ upLast' = UPOp("setUrl", "ok")
    /\ UNCHANGED <<upRest, uploadProgress, isUploading, uploadError, uploadSuccess,
                   showRightsModal, pendingUrl, hasRights, understands, requests, timers, route>>

\* lines 115-121: the form is submitted (field and button are disabled while
\* isUploading)
handleUrlSubmit ==
    /\ PageInteractive
    /\ ~isUploading
    /\ IF trim(url) = <<>>
       THEN /\ upLast' = UPOp("handleUrlSubmit", "return")
            /\ UNCHANGED <<pendingUrl, showRightsModal>>
       ELSE /\ pendingUrl' = url
            /\ showRightsModal' = TRUE
            /\ upLast' = UPOp("handleUrlSubmit", "modal")
    /\ UNCHANGED <<upRest, uploadProgress, isUploading, uploadError, uploadSuccess, url,
                   hasRights, understands, requests, timers, route>>

\* part_000 lines 130-146: the two checkboxes of the dialog
setHasRights(checked) ==
    /\ ModalOpen
    /\ checked # hasRights
    /\ hasRights' = checked
    /\ upLast' = UPOp("setHasRights", "ok")
    /\ UNCHANGED <<upRest, uploadProgress, isUploading, uploadError, uploadSuccess, url,
                   showRightsModal, pendingUrl, understands, requests, timers, route>>

setUnderstands(checked) ==
    /\ ModalOpen
    /\ checked # understands
    /\ understands' = checked
    /\ upLast' = UPOp("setUnderstands", "ok")
    /\ UNCHANGED <<upRest, uploadProgress, isUploading, uploadError, uploadSuccess, url,
                   showRightsModal, pendingUrl, hasRights, requests, timers, route>>

\* part_000 lines 157 and 89: Cancel, Escape or a click outside: onClose
onClose ==
    /\ ModalOpen
    /\ showRightsModal' = FALSE
    /\ upLast' = UPOp("onClose", "closed")
    /\ UNCHANGED <<upRest, uploadProgress, isUploading, uploadError, uploadSuccess, url,
                   pendingUrl, hasRights, understands, requests, timers, route>>

\* mutant of IngestBody: confirm_rights is sent as true whatever the dialog said
IngestBody_AlwaysConfirmed(confirmed, metadataOnly) ==
    [to |-> "/api/v1/ingest-url", url |-> pendingUrl,
     confirm_rights |-> TRUE, metadata_only |-> metadataOnly]

\* lines 135-145: the request of handleRightsConfirmation
IngestBody(confirmed, metadataOnly) ==
    [to |-> "/api/v1/ingest-url", url |-> pendingUrl,
     confirm_rights |-> confirmed, metadata_only |-> metadataOnly]

\* lines 123-145 up to the await, called by the dialog through onConfirm
handleRightsConfirmation(op, confirmed, metadataOnly) ==
    LET call == [UPNoOp EXCEPT !.op = op, !.confirmed = confirmed,
                               !.metadataOnly = metadataOnly]
    IN  /\ showRightsModal' = FALSE
        /\ IF ~confirmed /\ ~metadataOnly
           THEN \* lines 126-129
                /\ pendingUrl' = <<>>
                /\ upLast' = [call EXCEPT !.result = "return"]
                /\ UNCHANGED <<isUploading, uploadError, requests>>
           ELSE LET request == IngestBody(confirmed, metadataOnly)
                IN  /\ isUploading' = TRUE
                    /\ uploadError' = Null
                    /\ requests' = Append(requests, request)
                    /\ upLast' = [call EXCEPT !.request = Some(request), !.result = "fetch"]
                    /\ UNCHANGED pendingUrl
        /\ UNCHANGED <<upRest, uploadProgress, uploadSuccess, url, hasRights, understands,
                       timers, route>>

\* part_000 lines 78-80 and 164: Confirm & Download, disabled unless both boxes
\* are checked
handleConfirm ==
    /\ ModalOpen
    /\ ~(~hasRights \/ ~understands)
    /\ handleRightsConfirmation("handleConfirm", hasRights /\ understands, FALSE)

\* part_000 lines 82-84 and 160: Metadata Only
handleMetadataOnly ==
    /\ ModalOpen
    /\ handleRightsConfirmation("handleMetadataOnly", FALSE, TRUE)

\* lines 147-164: the ingest request settles
IngestResponse(i, ok, job) ==
    /\ route = <<"/upload">>
    /\ i \in 1..Len(requests)
    /\ requests[i].to = "/api/v1/ingest-url"
    /\ IF ok
       THEN /\ uploadSuccess' = Some([message |-> "URL processing started!", job_id |-> job])
            /\ timers' = timers \cup {job}
            /\ UNCHANGED uploadError
       ELSE /\ uploadError' = Some("URL processing failed. Please try again.")
            /\ UNCHANGED <<uploadSuccess, timers>>
    /\ isUploading' = FALSE
    /\ pendingUrl' = <<>>
    /\ url' = <<>>
    /\ requests' = RemoveAt(requests, i)
    /\ upLast' = UPOp("ingestResponse", IF ok THEN "ok" ELSE "error")
    /\ UNCHANGED <<upRest, uploadProgress, showRightsModal, hasRights, understands, route>>

\* lines 93-95 and 155-157: the timer fires and the router leaves the page
Redirect(job) ==
    /\ route = <<"/upload">>
    /\ job \in timers
    /\ route' = <<"/job", job>>
    /\ timers' = timers \ {job}
    /\ upLast' = UPOp("redirect", "ok")
    /\ UNCHANGED <<upRest, uploadProgress, isUploading, uploadError, uploadSuccess, url,
                   showRightsModal, pendingUrl, hasRights, understands, requests>>

UPNext ==
    \/ \E acceptedFiles \in {<<>>} \cup {<<f>> : f \in Files} : onDrop(acceptedFiles)
    \/ \E i \in 1..MaxRequests, ok \in BOOLEAN, job \in JobIds : UploadResponse(i, ok, job)
    \/ \E value \in Urls : setUrl(value)
    \/ handleUrlSubmit
    \/ \E checked \in BOOLEAN : setHasRights(checked)
    \/ \E checked \in BOOLEAN : setUnderstands(checked)
    \/ onClose
    \/ handleConfirm
    \/ handleMetadataOnly
    \/ \E i \in 1..MaxRequests, ok \in BOOLEAN, job \in JobIds : IngestResponse(i, ok, job)
    \/ \E job \in JobIds : Redirect(job)

----------------------------------------------------------------------------
(* JobStatusPage (src/app/job/[id]/page.tsx, lines 31-73, 105-125, 220-223) *)

\* status requests the timer and the Refresh button add to those in flight
MaxPolls == 2

\* the requests that can be in flight at once: ticks and clicks stop at MaxPolls,
\* and a settling status request leaves at most itself and a features request
PollSlots == 2 * MaxPolls + 2

\* lines 12-19: JobStatus, of which the page logic reads status
JobStatusOf(status) == [job_id |-> "job-1", status |-> status]

\* lines 21-29: the body of an OK features response
FeaturesBody == [duration |-> 180, bpm |-> 120]

\* jobStatus?.status
StatusOf(js) == IF js = Null THEN "undefined" ELSE Val(js).status

\* Response.json(): the body of a response can be read once; reading it again
\* rejects with a TypeError
json(response) ==
    IF response.bodyUsed THEN [thrown |-> TRUE, value |-> Null]
                         ELSE [thrown |-> FALSE, value |-> Some(response.body)]

JobNoOp == [op |-> "none", request |-> Null, outcome |-> "none", result |-> "none",
            issued |-> "none"]
JobOp(name, result, issued) ==
    [JobNoOp EXCEPT !.op = name, !.result = result, !.issued = issued]
JobSettled(name, request, outcome, result, issued) ==
    [JobOp(name, result, issued) EXCEPT !.request = Some(request), !.outcome = outcome]

JPInit ==
    /\ backend = "pending"
    /\ jobStatus = Null
    /\ jobFeatures = Null
    /\ jobLoading = TRUE
    /\ jobError = Null
    /\ interval = Null
    /\ polls = <<>>
    /\ jobLast = JobNoOp

\* the job moves forward at the backend
BackendAdvance ==
    /\ \/ backend = "pending" /\ backend' = "processing"
       \/ backend = "processing" /\ backend' \in {"completed", "failed"}
    /\ UNCHANGED <<jpRest, jobStatus, jobFeatures, jobLoading, jobError, interval, polls,
                   jobLast>>

\* line 40: fetchJobStatus up to its first await; the call remembers whether it
\* was made after a failure
StatusRequest == [pc |-> "status", response |-> Null, afterFailure |-> jobError # Null]

\* lines 62-73: the effect runs after the first render and after every render
\* in which params.id or jobStatus?.status differs from the run before; it
\* calls fetchJobStatus and replaces the interval
useEffect ==
    /\ IF interval = Null THEN TRUE ELSE Val(interval) # StatusOf(jobStatus)
    /\ polls' = Append(polls, StatusRequest)
    /\ interval' = Some(StatusOf(jobStatus))
    /\ jobLast' = JobOp("useEffect", "fetch", "status")
    /\ UNCHANGED <<jpRest, backend, jobStatus, jobFeatures, jobLoading, jobError>>

\* lines 66-70: the interval fires; its callback reads the jobStatus of the
\* render whose effect created it
Tick ==
    /\ interval # Null
    /\ IF Val(interval) = "pending" \/ Val(interval) = "processing"
       THEN /\ Len(polls) < MaxPolls
            /\ polls' = Append(polls, StatusRequest)
            /\ jobLast' = JobOp("tick", "fetch", "status")
       ELSE /\ jobLast' = JobOp("tick", "skip", "none")
            /\ UNCHANGED polls
    /\ UNCHANGED <<jpRest, backend, jobStatus, jobFeatures, jobLoading, jobError, interval>>

\* lines 105-125: the status view, which holds the Refresh button, is rendered
\* when the page is not loading, has no error and has a job status
StatusView == ~jobLoading /\ jobError = Null /\ jobStatus # Null

\* lines 220-223: Refresh
Refresh ==
    /\ interval # Null
    /\ StatusView
    /\ Len(polls) < MaxPolls
    /\ polls' = Append(polls, StatusRequest)
    /\ jobLast' = JobOp("refresh", "fetch", "status")
    /\ UNCHANGED <<jpRest, backend, jobStatus, jobFeatures, jobLoading, jobError, interval>>

\* the backend answers a status request with the status the job has then
Serve(i) ==
    /\ i \in 1..Len(polls)
    /\ polls[i].pc = "status"
    /\ polls[i].response = Null
    /\ polls' = [polls EXCEPT ![i].response =
                    Some([ok |-> TRUE, body |-> JobStatusOf(backend), bodyUsed |-> FALSE])]
    /\ UNCHANGED <<jpRest, backend, jobStatus, jobFeatures, jobLoading, jobError, interval,
                   jobLast>>

\* lines 40-60: the status request settles.  A rejected fetch and a response
\* that is not OK both reach the catch block.
JobStatusResponse(i, ok) ==
    /\ i \in 1..Len(polls)
    /\ polls[i].pc = "status"
    /\ IF ~ok
       THEN \* lines 55-59
            /\ jobError' = Some("Failed to load job status")
            /\ jobLoading' = FALSE
            /\ polls' = RemoveAt(polls, i)
            /\ jobLast' = JobSettled("statusResponse", polls[i], "not ok", "error", "none")
            /\ UNCHANGED jobStatus
       ELSE /\ polls[i].response # Null
            /\ LET response == Val(polls[i].response)
                   data == json(response).value[1]
               IN  /\ jobStatus' = Some(data)
                   /\ IF data.status = "completed"
                      THEN \* line 49
                           /\ polls' = Append(RemoveAt(polls, i),
                                  [pc |-> "features",
                                   response |-> Some([response EXCEPT !.bodyUsed = TRUE]),
                                   afterFailure |-> polls[i].afterFailure])
                           /\ jobLast' = JobSettled("statusResponse", polls[i], "ok", "await", "features")
                           /\ UNCHANGED jobLoading
                      ELSE \* lines 57-59
                           /\ jobLoading' = FALSE
                           /\ polls' = RemoveAt(polls, i)
                           /\ jobLast' = JobSettled("statusResponse", polls[i], "ok", "done", "none")
                   /\ UNCHANGED jobError
    /\ UNCHANGED <<jpRest, backend, jobFeatures, interval>>

\* how a features request can settle
FeaturesOutcomes == {"ok", "not ok", "rejected"}

\* lines 49-59: the features request settles.  Line 51 reads the body of
\* response, the status response read at line 44, not of featuresResponse.
JobFeaturesResponse(i, outcome) ==
    /\ i \in 1..Len(polls)
    /\ polls[i].pc = "features"
    /\ LET response == Val(polls[i].response)
           featuresData == json(response)
       IN  IF outcome = "rejected" \/ (outcome = "ok" /\ featuresData.thrown)
           THEN \* lines 55-56
                /\ jobError' = Some("Failed to load job status")
                /\ jobLast' = JobSettled("featuresResponse", polls[i], outcome, "error", "none")
                /\ UNCHANGED jobFeatures
           ELSE IF outcome = "ok"
           THEN \* line 52
                /\ jobFeatures' = featuresData.value
                /\ jobLast' = JobSettled("featuresResponse", polls[i], outcome, "done", "none")
                /\ UNCHANGED jobError
           ELSE /\ jobLast' = JobSettled("featuresResponse", polls[i], outcome, "done", "none")
                /\ UNCHANGED <<jobFeatures, jobError>>
    /\ jobLoading' = FALSE
    /\ polls' = RemoveAt(polls, i)
    /\ UNCHANGED <<jpRest, backend, jobStatus, interval>>

JPNext ==
    \/ BackendAdvance
    \/ useEffect
    \/ Tick
    \/ Refresh
    \/ \E i \in 1..PollSlots : Serve(i)
    \/ \E i \in 1..PollSlots, ok \in BOOLEAN : JobStatusResponse(i, ok)
    \/ \E i \in 1..PollSlots, outcome \in FeaturesOutcomes : JobFeaturesResponse(i, outcome)

----------------------------------------------------------------------------
(* GeneratePage (src/app/generate/[jobId]/page.tsx, lines 25-130, 302-303) *)

\* result.generation_id of an OK response
GenerationIds == {"gen-1", "gen-2"}

\* how the generation request can settle: the fetch is rejected, or a response
\* arrives that is OK with a generation id or not OK with an error body
GenResponses ==
    {[rejected |-> TRUE, ok |-> FALSE, body |-> [detail |-> "network"]]}
    \cup {[rejected |-> FALSE, ok |-> FALSE, body |-> [detail |-> "Generation failed"]]}
    \cup {[rejected |-> FALSE, ok |-> TRUE, body |-> [generation_id |-> id]] :
             id \in GenerationIds}

GPNoOp == [op |-> "none", response |-> Null, result |-> "none"]
GPOp(name, result) == [GPNoOp EXCEPT !.op = name, !.result = result]

GPInit ==
    /\ isGenerating = FALSE
    /\ generationProgress = 0
    /\ genError = Null
    /\ genre = "hip-hop"
    /\ mood = "energetic"
    /\ explicit = FALSE
    /\ language = "en"
    /\ rhymeScheme = "AABB"
    /\ syllablesPerBeat = <<14>>
    /\ genRequest = Null
    /\ genRoute = <<"/generate", "job-1">>
    /\ genLast = GPNoOp

\* the page is mounted
GenMounted == genRoute = <<"/generate", "job-1">>

\* lines 69-90
applyPreset(presetType) ==
    /\ GenMounted
    /\ CASE presetType = "rap" ->
              /\ genre' = "trap"
              /\ mood' = "introspective"
              /\ rhymeScheme' = "AABB"
              /\ syllablesPerBeat' = <<16>>
         [] presetType = "pop" ->
              /\ genre' = "pop"
              /\ mood' = "uplifting"
              /\ rhymeScheme' = "ABAB"
              /\ syllablesPerBeat' = <<10>>
         [] presetType = "country" ->
              /\ genre' = "country"
              /\ mood' = "nostalgic"
              /\ rhymeScheme' = "AABB"
              /\ syllablesPerBeat' = <<11>>
         [] OTHER -> UNCHANGED <<genre, mood, rhymeScheme, syllablesPerBeat>>
    /\ genLast' = GPOp("applyPreset", presetType)
    /\ UNCHANGED <<gpRest, isGenerating, generationProgress, genError, explicit, language,
                   genRequest, genRoute>>

\* line 271: the explicit switch
setExplicit(checked) ==
    /\ GenMounted
    /\ checked # explicit
    /\ explicit' = checked
    /\ genLast' = GPOp("setExplicit", "ok")
    /\ UNCHANGED <<gpRest, isGenerating, generationProgress, genError, genre, mood, language,
                   rhymeScheme, syllablesPerBeat, genRequest, genRoute>>

\* lines 92-114, up to the await; the button is disabled while isGenerating
\* (line 303)
handleGenerate ==
    /\ GenMounted
    /\ ~isGenerating
    /\ isGenerating' = TRUE
    /\ genError' = Null
    /\ generationProgress' = 0
    /\ genRequest' = Some([job_id |-> "job-1", genre |-> genre, mood |-> mood,
                           explicit |-> explicit, language |-> language,
                           rhyme_scheme |-> rhymeScheme,
                           syllables_per_beat |-> syllablesPerBeat[1]])
    /\ genLast' = GPOp("handleGenerate", "fetch")
    /\ UNCHANGED <<gpRest, gpParams, genRoute>>

\* mutant of GenerateThrows: response.ok is not looked at
GenerateThrows_IgnoresOk(response) == response.rejected

\* lines 108-118: the try block throws when the fetch is rejected or the
\* response is not OK
GenerateThrows(response) == response.rejected \/ ~response.ok

\* lines 116-129: the generation request settles
GenerateResponse(response) ==
    /\ GenMounted
    /\ genRequest # Null
    /\ IF GenerateThrows(response)
       THEN \* line 125
            /\ genError' = Some("Failed to generate lyrics. Please try again.")
            /\ genLast' = [GPOp("response", "error") EXCEPT !.response = Some(response)]
            /\ UNCHANGED genRoute
       ELSE \* lines 120-123; a body without generation_id gives "undefined"
            LET result == response.body
                generation_id == IF "generation_id" \in DOMAIN result
                                 THEN result.generation_id ELSE "undefined"
            IN  /\ genRoute' = <<"/editor", generation_id>>
                /\ genLast' = [GPOp("response", "push") EXCEPT !.response = Some(response)]
                /\ UNCHANGED genError
    /\ isGenerating' = FALSE
    /\ generationProgress' = 0
    /\ genRequest' = Null
    /\ UNCHANGED <<gpRest, gpParams>>

GPNext ==
    \/ \E presetType \in {"rap", "pop", "country"} : applyPreset(presetType)
    \/ \E checked \in BOOLEAN : setExplicit(checked)
    \/ handleGenerate
    \/ \E response \in GenResponses : GenerateResponse(response)

----------------------------------------------------------------------------
(* Proxy route handlers: src/app/api/v1/upload/route.ts,                   *)
(* src/app/api/v1/jobs/[id]/status/route.ts, src/app/api/export/route.ts,  *)
(* src/app/api/auth/register/route.ts                                      *)

\* the status codes the response answers with
BackendStatuses == {200, 201, 400, 404, 500, 503}

\* what the response does with a forwarded request: the fetch is rejected, or a
\* response arrives whose body is JSON or is not (a gateway's HTML page)
BackendOutcomes ==
    {[rejected |-> TRUE, status |-> 0, isJson |-> FALSE, body |-> "none"]}
    \cup {[rejected |-> FALSE, status |-> st, isJson |-> TRUE,
           body |-> IF st < 300 THEN "data" ELSE "response detail"] : st \in BackendStatuses}
    \cup {[rejected |-> FALSE, status |-> st, isJson |-> FALSE, body |-> "<html>"] :
             st \in BackendStatuses}

\* the incoming request: its body can be read (formData(), json()) or not
ProxyRequests == [readable : BOOLEAN]

\* Response.ok
ResponseOk(response) == response.status >= 200 /\ response.status <= 299

\* NextResponse.json(body, { status })
NextResponseJson(body, status) == [status |-> status, json |-> TRUE, body |-> body]

\* the catch block of a handler
ProxyFailed(detail) == NextResponseJson([detail |-> detail], 500)

\* upload POST (lines 3-24), job-status GET (lines 3-17) and register POST
\* (lines 3-26): read the request, forward it, read the response as JSON, then
\* look at response.ok
ForwardJson(request, response, detail) ==
    IF ~request.readable \/ response.rejected \/ ~response.isJson
    THEN ProxyFailed(detail)
    ELSE LET data == response.body
         IN  IF ~ResponseOk(response)
             THEN NextResponseJson(data, response.status)
             ELSE NextResponseJson(data, 200)

\* export POST (export/route.ts lines 3-36): the body of the response is read
\* as JSON only when the response is not OK; an OK response is streamed
ExportPost(request, response) ==
    IF ~request.readable \/ response.rejected
    THEN ProxyFailed("Export failed")
    ELSE IF ~ResponseOk(response)
    THEN IF ~response.isJson
         THEN ProxyFailed("Export failed")
         ELSE NextResponseJson(response.body, response.status)
    ELSE [status |-> 200, json |-> FALSE, body |-> response.body]

\* export GET (export/route.ts lines 38-48): response.ok is not looked at
ExportGet(response) ==
    IF response.rejected \/ ~response.isJson
    THEN ProxyFailed("Failed to get export formats")
    ELSE NextResponseJson(response.body, 200)

Unanswered(request, response) ==
    [request |-> request, backend |-> response, handler |-> "none", answer |-> Null]
Answered(handler, answer) ==
    [proxied EXCEPT !.handler = handler, !.answer = Some(answer)]

PRInit == proxied = Unanswered([readable |-> TRUE], [rejected |-> TRUE, status |-> 0,
                                                    isJson |-> FALSE, body |-> "none"])

UploadPOST ==
    /\ proxied.answer = Null
    /\ proxied' = Answered("upload POST",
                           ForwardJson(proxied.request, proxied.backend, "Upload failed"))
    /\ UNCHANGED prRest

\* a GET has no body to read
JobStatusGET ==
    /\ proxied.answer = Null
    /\ proxied.request.readable
    /\ proxied' = Answered("job-status GET",
                           ForwardJson(proxied.request, proxied.backend,
                                       "Failed to fetch job status"))
    /\ UNCHANGED prRest

RegisterPOST ==
    /\ proxied.answer = Null
    /\ proxied' = Answered("register POST",
                           ForwardJson(proxied.request, proxied.backend,
                                       "Registration failed"))
    /\ UNCHANGED prRest

ExportPOST ==
    /\ proxied.answer = Null
    /\ proxied' = Answered("export POST", ExportPost(proxied.request, proxied.backend))
    /\ UNCHANGED prRest

ExportGET ==
    /\ proxied.answer = Null
    /\ proxied.request.readable
    /\ proxied' = Answered("export GET", ExportGet(proxied.backend))
    /\ UNCHANGED prRest

PRNext == UploadPOST \/ JobStatusGET \/ RegisterPOST \/ ExportPOST \/ ExportGET

----------------------------------------------------------------------------
(* RegisterForm (src/unnamed/part_001, lines 18-97 and 212) *)

\* what is typed into a field: nothing, two passwords that meet every
\* requirement, and one that misses each requirement in turn
FieldTexts ==
    { <<>>,
      <<"A","a","1","a","a","a","a","a">>,
      <<"B","b","2","b","b","b","b","b">>,
      <<"A","a","1","a","a","a","a">>,
      <<"a","a","1","a","a","a","a","a">>,
      <<"A","A","1","A","A","A","A","A">>,
      <<"A","a","a","a","a","a","a","a">> }

\* the character classes [A-Z], [a-z] is ClassAZ, and \d
ClassUpper == {UpperSeq[i] : i \in 1..26}
ClassDigit == {"0","1","2","3","4","5","6","7","8","9"}

\* RegExp.prototype.test for a one-character class
RegexTest(class, text) == \E i \in 1..Len(text) : text[i] \in class

\* lines 31-36: the met flags
passwordRequirements ==
    << Len(formData.password) >= 8,
       RegexTest(ClassUpper, formData.password),
       RegexTest(ClassAZ, formData.password),
       RegexTest(ClassDigit, formData.password) >>

\* mutant of isPasswordValid: the number is not asked for
isPasswordValid_NoDigit == \A i \in 1..3 : passwordRequirements[i]

\* line 38
isPasswordValid == \A i \in 1..Len(passwordRequirements) : passwordRequirements[i]

\* line 39
doPasswordsMatch ==
    formData.password = formData.confirmPassword /\ formData.confirmPassword # <<>>

\* how the registration request can settle
RegResponses ==
    { [rejected |-> TRUE, ok |-> FALSE, isJson |-> FALSE, body |-> [detail |-> ""]],
      [rejected |-> FALSE, ok |-> TRUE, isJson |-> FALSE, body |-> [detail |-> ""]],
      [rejected |-> FALSE, ok |-> FALSE, isJson |-> TRUE, body |-> [detail |-> "Email taken"]],
      [rejected |-> FALSE, ok |-> FALSE, isJson |-> TRUE, body |-> [detail |-> ""]],
      [rejected |-> FALSE, ok |-> TRUE, isJson |-> TRUE,
       body |-> [access_token |-> "at", refresh_token |-> "rt", user |-> "user-1"]] }

RFNoOp == [op |-> "none", response |-> Null, result |-> "none"]
RFOp(name, result) == [RFNoOp EXCEPT !.op = name, !.result = result]

RFInit ==
    /\ formData = [username |-> <<>>, email |-> <<>>, password |-> <<>>,
                   confirmPassword |-> <<>>]
    /\ isLoading = FALSE
    /\ regError = ""
    /\ localStorage = [access_token |-> Null, refresh_token |-> Null, user |-> Null]
    /\ regRequest = Null
    /\ regRoute = <<"/register">>
    /\ regLast = RFNoOp

\* the form is mounted
RegMounted == regRoute = <<"/register">>

\* lines 95-97; the fields are disabled while isLoading
handleInputChange(field, value) ==
    /\ RegMounted
    /\ ~isLoading
    /\ formData[field] # value
    /\ formData' = [formData EXCEPT ![field] = value]
    /\ regLast' = RFOp("handleInputChange", field)
    /\ UNCHANGED <<rfRest, isLoading, regError, localStorage, regRequest, regRoute>>

\* lines 41-70, up to the await
handleSubmit ==
    /\ RegMounted
    /\ ~isLoading
    /\ IF ~isPasswordValid
       THEN \* lines 46-50
            /\ regError' = "Password does not meet requirements"
            /\ isLoading' = FALSE
            /\ regLast' = RFOp("handleSubmit", "invalid")
            /\ UNCHANGED regRequest
       ELSE IF ~doPasswordsMatch
       THEN \* lines 52-56
            /\ regError' = "Passwords do not match"
            /\ isLoading' = FALSE
            /\ regLast' = RFOp("handleSubmit", "mismatch")
            /\ UNCHANGED regRequest
       ELSE \* lines 43-44, 58-70
            /\ isLoading' = TRUE
            /\ regError' = ""
            /\ regRequest' = Some([username |-> formData.username,
                                   email |-> formData.email,
                                   password |-> formData.password,
                                   confirm_password |-> formData.confirmPassword])
            /\ regLast' = RFOp("handleSubmit", "fetch")
    /\ UNCHANGED <<rfRest, formData, localStorage, regRoute>>

\* lines 72-92: the registration request settles; onSuccess is not passed
RegisterResponse(response) ==
    /\ RegMounted
    /\ regRequest # Null
    /\ IF response.rejected \/ ~response.isJson
       THEN \* line 59 or 72 throws
            /\ regError' = IF response.rejected THEN "Failed to fetch"
                                                ELSE "Unexpected token < in JSON"
            /\ regLast' = [RFOp("response", "error") EXCEPT !.response = Some(response)]
            /\ UNCHANGED <<localStorage, regRoute>>
       ELSE LET data == response.body
            IN  IF ~response.ok
                THEN \* lines 74-76, 89
                     /\ regError' = IF data.detail # "" THEN data.detail
                                                        ELSE "Registration failed"
                     /\ regLast' = [RFOp("response", "error")
                                        EXCEPT !.response = Some(response)]
                     /\ UNCHANGED <<localStorage, regRoute>>
                ELSE \* lines 79-87
                     /\ localStorage' = [access_token |-> Some(data.access_token),
                                         refresh_token |-> Some(data.refresh_token),
                                         user |-> Some(data.user)]
                     /\ regRoute' = <<"/upload">>
                     /\ regLast' = [RFOp("response", "stored")
                                        EXCEPT !.response = Some(response)]
                     /\ UNCHANGED regError
    /\ isLoading' = FALSE
    /\ regRequest' = Null
    /\ UNCHANGED <<rfRest, formData>>

RFNext ==
    \/ \E field \in {"username", "password", "confirmPassword"}, value \in FieldTexts :
          handleInputChange(field, value)
    \/ handleSubmit
    \/ \E response \in RegResponses : RegisterResponse(response)

----------------------------------------------------------------------------
(* Specifications: one per component, the other components at rest *)

EPIdle == generationId = 1 /\ EPInit
LEIdle == lines = <<>> /\ LEInit
RGIdle == RGInit
FnIdle ==
    /\ counted = Uncounted(<<>>)
    /\ accuracy = Unclassified(LyricLine(0, <<>>, 0, "A", 0, Absent))
    /\ current = Unsought(<<>>, 0)

\* the pages outside the editors
PagesIdle == JPInit /\ GPInit /\ PRInit /\ RFInit

\* EditorPage
Init == EPInit /\ LEIdle /\ RGIdle /\ FnIdle /\ UPInit /\ PagesIdle
Next == EPNext
Spec == Init /\ [][Next]_vars

\* LyricEditor
InitLE == EPIdle /\ LEInit /\ RGIdle /\ FnIdle /\ UPInit /\ PagesIdle
NextLE == LENext
SpecLE == InitLE /\ [][NextLE]_vars

\* the two editors, one of them per behaviour: the components share no state
InitEdit == ((EPInit /\ LEIdle) \/ (EPIdle /\ LEInit)) /\ RGIdle /\ FnIdle /\ UPInit /\ PagesIdle
NextEdit ==
    \/ leLast = LENoOp /\ lines = <<>> /\ EPNext
    \/ last = NoOp /\ generationId = 1 /\ LENext
SpecEdit == InitEdit /\ [][NextEdit]_vars

\* regenerateRange
InitRG == EPIdle /\ LEIdle /\ RGInit /\ FnIdle /\ UPInit /\ PagesIdle
NextRG == RGNext
SpecRG == InitRG /\ [][NextRG]_vars

\* the two countSyllables on every text
InitCount ==
    /\ EPIdle /\ LEIdle /\ RGIdle /\ UPInit /\ PagesIdle
    /\ \E text \in Texts : counted = Uncounted(text)
    /\ accuracy = Unclassified(LyricLine(0, <<>>, 0, "A", 0, Absent))
    /\ current = Unsought(<<>>, 0)
NextCount == PageCountSyllables \/ EditorCountSyllables
SpecCount == InitCount /\ [][NextCount]_vars

\* getSyllableAccuracy on every line
InitAcc ==
    /\ EPIdle /\ LEIdle /\ RGIdle /\ UPInit /\ PagesIdle
    /\ counted = Uncounted(<<>>)
    /\ \E line \in AccLines : accuracy = Unclassified(line)
    /\ current = Unsought(<<>>, 0)
SpecAcc == InitAcc /\ [][GetSyllableAccuracy]_vars

\* getCurrentLine on every lines prop and time
InitCur ==
    /\ EPIdle /\ LEIdle /\ RGIdle /\ UPInit /\ PagesIdle
    /\ counted = Uncounted(<<>>)
    /\ accuracy = Unclassified(LyricLine(0, <<>>, 0, "A", 0, Absent))
    /\ \E ls \in TimedLines, time \in Times : current = Unsought(ls, time)
SpecCur == InitCur /\ [][GetCurrentLine]_vars

\* UploadPage
InitUp == EPIdle /\ LEIdle /\ RGIdle /\ FnIdle /\ UPInit /\ PagesIdle
SpecUp == InitUp /\ [][UPNext]_vars

\* JobStatusPage
InitJob == EPIdle /\ LEIdle /\ RGIdle /\ FnIdle /\ UPInit /\ PagesIdle
SpecJob == InitJob /\ [][JPNext]_vars

\* GeneratePage
InitGen == EPIdle /\ LEIdle /\ RGIdle /\ FnIdle /\ UPInit /\ PagesIdle
SpecGen == InitGen /\ [][GPNext]_vars

\* the proxy route handlers on every request and backend behaviour
InitProxy ==
    /\ EPIdle /\ LEIdle /\ RGIdle /\ FnIdle /\ UPInit /\ JPInit /\ GPInit /\ RFInit
    /\ \E request \in ProxyRequests, response \in BackendOutcomes :
          proxied = Unanswered(request, response)
SpecProxy == InitProxy /\ [][PRNext]_vars

\* RegisterForm
InitReg == EPIdle /\ LEIdle /\ RGIdle /\ FnIdle /\ UPInit /\ PagesIdle
SpecReg == InitReg /\ [][RFNext]_vars

----------------------------------------------------------------------------
(* Claims *)

\* the lines of a section outside the bar range, in order
OutsideLines(section, minBar, maxBar) ==
    LET Outside(line) == ~InRange(line.suggested_bar_start, minBar, maxBar)
    IN  SelectSeq(section.lines, Outside)
\* the lines of a section inside the bar range, in order
InsideLines(section, minBar, maxBar) ==
    LET Inside(line) == InRange(line.suggested_bar_start, minBar, maxBar)
    IN  SelectSeq(section.lines, Inside)

WithoutIndex(ls) == [i \in 1..Len(ls) |-> [ls[i] EXCEPT !.line_index = 0]]

ContiguousFromZero(ls) == \A i \in 1..Len(ls) : ls[i].line_index = i - 1

\* a step of regenerateRange that spliced
RegenStep == regenLast'.op = "regenerateRange" /\ regenLast'.result = "ok"

\* C1 as stated: regenerateRange leaves every line whose suggested_bar_start is
\* outside [minBar, maxBar] identical (line_index included) and in the same order,
\* and afterwards line_index is contiguous from 0 in every section.
C1_OutsideLinesIdentical ==
    [][RegenStep =>
        \A i \in 1..Len(doc) :
            /\ OutsideLines(doc'[i], regenLast'.minBar, regenLast'.maxBar)
                   = OutsideLines(doc[i], regenLast'.minBar, regenLast'.maxBar)
            /\ ContiguousFromZero(doc'[i].lines)]_vars

\* C1 amended: regenerateRange replaces exactly the lines inside the range by the
\* regenerated lines; every line outside the range keeps all its fields other than
\* line_index and its relative order, the lines before the range keep line_index
\* too, and afterwards line_index is contiguous from 0 in every section.
C1_RegenerationContainment ==
    [][RegenStep =>
        /\ Len(doc') = Len(doc)
        /\ \A i \in 1..Len(doc) :
            LET minBar == regenLast'.minBar
                maxBar == regenLast'.maxBar
                Before(line) == line.suggested_bar_start < minBar
                Mine(bar) == bar \in SeqToSet(doc[i].bars)
            IN  /\ doc'[i].name = doc[i].name /\ doc'[i].bars = doc[i].bars
                /\ WithoutIndex(OutsideLines(doc'[i], minBar, maxBar))
                       = WithoutIndex(OutsideLines(doc[i], minBar, maxBar))
                /\ SelectSeq(doc'[i].lines, Before) = SelectSeq(doc[i].lines, Before)
                /\ WithoutIndex(InsideLines(doc'[i], minBar, maxBar))
                       = LET bs == SelectSeq(regenLast'.newBars, Mine)
                         IN  [k \in 1..Len(bs) |-> GeneratedLine(bs[k])]
                /\ ContiguousFromZero(doc'[i].lines)]_vars

\* C1 witness: bar 1 of the verse was regenerated into two lines, so the line at
\* bar 2, outside the range, moved from index 2 to index 3
C1_Witness ==
    /\ regenLast.op = "regenerateRange" /\ regenLast.result = "ok"
    /\ regenLast.minBar = 1 /\ regenLast.maxBar = 1 /\ regenLast.newBars = <<1, 1>>
    /\ Len(doc[1].lines) = 4
    /\ doc[1].lines[4].suggested_bar_start = 2 /\ doc[1].lines[4].line_index = 3
    /\ doc[1].lines[4].text = T_the

\* computeSyllables of the specification (4.2): the number of maximal runs of
\* characters in {a,e,i,o,u,y}, case-insensitive, less one when the lowercased
\* text ends in "e" and there is more than one run, and at least 1
VowelGroups(text) == Len(MatchRuns(toLowerCase(text), ClassAeiouy, <<>>))
computeSyllables(text) ==
    LET g == VowelGroups(text)
        silentE == IF text # <<>> /\ LowerChar(text[Len(text)]) = "e" /\ g > 1 THEN 1 ELSE 0
    IN  Max2(1, g - silentE)

\* C2: after any sequence of line-text edits on a loaded document,
\* metadata.actual_total_syllables, when present, equals the sum of
\* actual_syllables over all lines of all sections.
C2_TotalIsSumOfLines ==
    \/ IsNull(editedLyrics)
    \/ LET d == Val(EditedDoc)
       IN  \/ d.metadata.actual_total_syllables = Absent
           \/ d.metadata.actual_total_syllables = TotalActual(d.sections)

\* C3: in every reachable document state each line's stored syllable count
\* (actual_syllables in EditorPage, syllable_count in LyricEditor) equals
\* computeSyllables of the line's current text.
C3_CountReflectsText ==
    /\ \/ IsNull(editedLyrics)
       \/ LET ls == AllLines(Val(EditedDoc).sections)
          IN  \A i \in 1..Len(ls) : ls[i].actual_syllables = computeSyllables(ls[i].text)
    /\ \A i \in 1..Len(lines) : lines[i].syllable_count = computeSyllables(lines[i].text)

\* what a line keeps across an edit of its text: everything but text and count
EPKept(line) == [line EXCEPT !.text = <<>>, !.actual_syllables = 0]
LEKept(line) == [line EXCEPT !.text = <<>>, !.syllable_count = 0]

\* C4: a line-text edit (EditorPage.updateLineText, LyricEditor.handleLineEdit)
\* changes only the text and the stored syllable count of the one targeted line:
\* that line's rhyme tag, timestamps, syllable target, bar and index, every other
\* line, the number of lines and their order (and title, sections' names and bars,
\* metadata) are unchanged.
C4_EditChangesOnlyTargetLine ==
    [][ /\ (last'.op = "updateLineText" /\ ~IsNull(editedLyrics) /\ ~IsNull(editedLyrics')) =>
             LET before == Val(EditedDoc)
                 after == Val(EditedDoc')
             IN  /\ after.title = before.title
                 /\ after.metadata = before.metadata
                 /\ Len(after.sections) = Len(before.sections)
                 /\ \A i \in 1..Len(before.sections) :
                     /\ after.sections[i].name = before.sections[i].name
                     /\ after.sections[i].bars = before.sections[i].bars
                     /\ Len(after.sections[i].lines) = Len(before.sections[i].lines)
                     /\ \A j \in 1..Len(before.sections[i].lines) :
                         IF i = last'.sectionIndex + 1 /\ j = last'.lineIndex + 1
                         THEN EPKept(after.sections[i].lines[j]) = EPKept(before.sections[i].lines[j])
                         ELSE after.sections[i].lines[j] = before.sections[i].lines[j]
        /\ leLast'.op = "handleLineEdit" =>
             /\ Len(lines') = Len(lines)
             /\ \A i \in 1..Len(lines) :
                 IF lines[i].id = leLast'.lineId
                 THEN LEKept(lines'[i]) = LEKept(lines[i])
                 ELSE lines'[i] = lines[i] ]_vars

\* C4 witness: line 1 of section 0 was edited to "make" and kept its rhyme tag,
\* while line 0 still reads "the"
C4_Witness ==
    /\ last.op = "updateLineText" /\ last.result = "ok"
    /\ last.sectionIndex = 0 /\ last.lineIndex = 1 /\ last.text = T_make
    /\ ~IsNull(editedLyrics)
    /\ LET ls == Val(EditedDoc).sections[1].lines
       IN  /\ Len(ls) = 2
           /\ ls[2].text = T_make /\ ls[2].rhyme_tag = "B"
           /\ ls[1].text = T_the

\* C5: applying the same edit twice in a row yields the same document and dirty
\* state as applying it once.
C5_EditIdempotent ==
    [][ /\ (last'.op = "updateLineText" /\ last'.repeated) =>
             /\ EditedDoc' = EditedDoc
             /\ hasUnsavedChanges' = hasUnsavedChanges
        /\ (leLast'.op = "handleLineEdit" /\ leLast'.repeated) => lines' = lines ]_vars

\* C5 witness: updateLineText(0, 0, "make") ran twice in a row on a loaded document
C5_Witness ==
    /\ last.op = "updateLineText" /\ last.result = "ok" /\ last.repeated
    /\ last.sectionIndex = 0 /\ last.lineIndex = 0 /\ last.text = T_make
    /\ Val(EditedDoc).sections[1].lines[1].text = T_make
    /\ hasUnsavedChanges

\* C6: an edit whose sectionIndex / lineIndex (or line id) does not exist in the
\* document fails with an error surfaced to the caller.
C6_MissingLineFails ==
    /\ (/\ last.op = "updateLineText"
        /\ ~IsNull(editedLyrics)
        /\ ~LineExists(Val(EditedDoc).sections, last.sectionIndex, last.lineIndex))
          => last.result \in {"IndexOutOfBounds", "TypeError"}
    /\ (leLast.op = "handleLineEdit" /\ leLast.lineId \notin IdsOf(lines))
          => leLast.result \in {"IndexOutOfBounds", "TypeError"}

\* C7: hasUnsavedChanges is false after the document is loaded, becomes true on
\* an updateLineText or updateTitle, stays true across further edits, returns to
\* false only when a persistence call succeeds, and stays true when a save fails.
C7_CleanDirtyClean ==
    [][ /\ last'.op = "fetchGenerationOk" => ~hasUnsavedChanges'
        /\ (last'.op \in {"updateLineText", "updateTitle"} /\ last'.result = "ok")
              => hasUnsavedChanges'
        /\ (hasUnsavedChanges /\ ~hasUnsavedChanges')
              => (last'.op = "save" /\ last'.result = "ok")
        /\ (last'.op = "save" /\ last'.result = "error")
              => hasUnsavedChanges' = hasUnsavedChanges ]_vars

\* C8: while hasUnsavedChanges is true, no transition replaces editedLyrics with a
\* remotely fetched document: the result of a fetch does not overwrite local edits.
C8_FetchKeepsLocalEdits ==
    [][(hasUnsavedChanges /\ last'.op = "fetchGenerationOk") => EditedDoc' = EditedDoc]_vars

\* C9: updateLineText does not mutate the previous document: after an edit the
\* snapshot fetched into generation.lyrics still holds the original text and
\* actual_syllables of the edited line.
C9_EditLeavesSnapshot ==
    [][(last'.op = "updateLineText" /\ last'.result = "ok") => GenerationDoc' = GenerationDoc]_vars

\* the bars of the lines of the lines prop that are selected
SelectedBars == {lines[i].bar_index : i \in {k \in 1..Len(lines) : Includes(selectedLines, lines[k].id)}}

\* C10: whenever handleRegenerateSelected calls onRegenerateSection(minBar, maxBar),
\* minBar is the smallest and maxBar the largest bar_index among the selected lines,
\* so minBar <= maxBar and both are bar indices of lines of the lines prop.
C10_RangeSpansSelection ==
    [][(/\ leLast'.op = "handleRegenerateSelected"
        /\ leLast'.result = "onRegenerateSection"
        /\ selectedLines # <<>>) =>
            /\ ~IsNull(regenCall')
            /\ LET call == Val(regenCall')
               IN  /\ call.startBar \in SelectedBars
                   /\ call.endBar \in SelectedBars
                   /\ \A b \in SelectedBars : call.startBar <= b /\ b <= call.endBar
                   /\ call.startBar <= call.endBar ]_vars

\* C11: handleRegenerateSelected on an empty selection fails with an
\* EmptySelection error surfaced to the caller, and requests no regeneration.
C11_EmptySelectionFails ==
    [][(leLast'.op = "handleRegenerateSelected" /\ selectedLines = <<>>) =>
          /\ leLast'.result = "EmptySelection"
          /\ regenCall' = regenCall]_vars

\* C12: for every text LyricEditor.countSyllables returns max(1, g - s), g the
\* number of maximal runs of characters in {a,e,i,o,u,y} (case-insensitive) and
\* s = 1 when the lowercased text ends in "e" and g > 1, else 0.
C12_EditorCountIsGroupsLessSilentE ==
    counted.editor # Absent => counted.editor = computeSyllables(counted.text)

\* C12 witness: "etE" has two vowel groups and ends in "e": counted 1
C12_Witness ==
    /\ counted.text = <<"e", "t", "E">>
    /\ VowelGroups(counted.text) = 2
    /\ counted.editor = 1

\* C13: every syllable count an edit stores is at least 1, whatever the new text:
\* actual_syllables set by EditorPage.updateLineText and syllable_count set by
\* LyricEditor.handleLineEdit.
C13_StoredCountAtLeastOne ==
    [][ /\ (last'.op = "updateLineText" /\ last'.result = "ok") =>
              Val(EditedDoc').sections[last'.sectionIndex + 1]
                  .lines[last'.lineIndex + 1].actual_syllables >= 1
        /\ leLast'.op = "handleLineEdit" =>
              \A i \in 1..Len(lines') :
                  lines'[i].id = leLast'.lineId => lines'[i].syllable_count >= 1 ]_vars

\* the count of the for loop of LyricEditor.countSyllables, before the silent-e rule
RawCount(text) == LE_loop(text, 0, FALSE)

\* C14 as stated: countSyllables("the") returns 1, obtained by the silent-e rule
\* reducing a raw vowel-group count of 2 by one.
C14_TheBySilentE ==
    (counted.text = T_the /\ counted.editor # Absent) =>
        /\ counted.editor = 1
        /\ RawCount(counted.text) = 2
        /\ EndsWithE(counted.text)

\* C14 amended: countSyllables("the") returns 1: the raw vowel-group count is 1
\* (the only vowel is "e"), so the silent-e rule, which needs a count above 1,
\* does not apply and the count is returned as it is.
C14_TheIsOneGroup ==
    (counted.text = T_the /\ counted.editor # Absent) =>
        /\ counted.editor = 1
        /\ RawCount(counted.text) = 1
        /\ counted.editor = RawCount(counted.text)

\* C14 witness: LyricEditor.countSyllables has returned for "the"
C14_Witness ==
    counted.text = T_the /\ counted.editor = 1 /\ EndsWithE(counted.text)

\* C15: EditorPage.countSyllables and LyricEditor.countSyllables return the same
\* count for every text.
C15_CountersAgree ==
    (counted.page # Absent /\ counted.editor # Absent) => counted.page = counted.editor

\* C16: getSyllableAccuracy is decided by the stored actual count and the target
\* alone: perfect iff |actual - target| = 0, good iff |actual - target| = 1, poor
\* otherwise, for every stored count, 0 included.
C16_AccuracyByStoredCount ==
    (accuracy.result # "none" /\ accuracy.line.actual_syllables # Absent) =>
        LET diff == Abs(accuracy.line.actual_syllables - accuracy.line.syllable_target)
        IN  /\ accuracy.result \in {"perfect", "good", "poor"}
            /\ accuracy.result = "perfect" <=> diff = 0
            /\ accuracy.result = "good" <=> diff = 1

\* the positions of the lines whose [start_time, end_time] contains the time
Containing(ls, time) ==
    {i \in 1..Len(ls) : ls[i].start_time <= time /\ time <= ls[i].end_time}

\* C17: getCurrentLine returns a line whose [start_time, end_time], both ends
\* inclusive, contains currentTime; none when no line contains it; and the one
\* that comes first in the lines when several contain it.
C17_CurrentLineIsFirstContaining ==
    current.done =>
        LET hits == Containing(current.lines, current.time)
        IN  IF hits = {}
            THEN IsNull(current.line)
            ELSE /\ ~IsNull(current.line)
                 /\ Val(current.line)
                        = current.lines[CHOOSE i \in hits : \A j \in hits : i <= j]

\* C17 witness: the time is the end of line a and the start of line b; a is returned
C17_Witness ==
    /\ current.done
    /\ Len(current.lines) = 2
    /\ current.lines[1].end_time = 2 /\ current.lines[2].start_time = 2
    /\ current.lines[1].start_time = 0 /\ current.lines[2].end_time = 3
    /\ current.time = 2
    /\ ~IsNull(current.line) /\ Val(current.line).id = "a"

\* C18: updateTitle on a loaded document replaces title with newTitle, marks the
\* session dirty and leaves every section, every line and the metadata unchanged;
\* on a document that is not loaded it changes nothing and does not mark dirty.
C18_TitleEditFrame ==
    [][last'.op = "updateTitle" =>
          IF IsNull(editedLyrics)
          THEN /\ IsNull(editedLyrics')
               /\ hasUnsavedChanges' = hasUnsavedChanges
          ELSE /\ ~IsNull(editedLyrics')
               /\ Val(EditedDoc').title = last'.title
               /\ hasUnsavedChanges'
               /\ Val(EditedDoc').sections = Val(EditedDoc).sections
               /\ Val(EditedDoc').metadata = Val(EditedDoc).metadata ]_vars

\* C18 witness: the title of the loaded document of generation 1 was replaced;
\* its lines and metadata are the served ones
C18_Witness ==
    /\ last.op = "updateTitle" /\ last.result = "ok" /\ last.title = "New"
    /\ ~IsNull(editedLyrics)
    /\ Val(EditedDoc).title = "New"
    /\ Val(EditedDoc).sections = ServedSections(1)
    /\ Val(EditedDoc).metadata = ServedMetadata(1)
    /\ hasUnsavedChanges

\* the ingest-url requests a step issues
IssuedIngest ==
    {i \in 1..Len(requests') :
        /\ requests'[i].to = "/api/v1/ingest-url"
        /\ (i > Len(requests) \/ requests[i] # requests'[i])}

\* C20: an /api/v1/ingest-url request is issued only after the dialog was shown for
\* the pending URL and the user pressed Confirm with both boxes checked
\* (confirm_rights = true, metadata_only = false) or Metadata Only
\* (confirm_rights = false, metadata_only = true); closing the dialog or an
\* unconfirmed result issues no request.
C20_IngestOnlyThroughRightsModal ==
    [][ /\ \A i \in IssuedIngest :
              LET body == requests'[i]
              IN  /\ showRightsModal
                  /\ body.url = pendingUrl /\ trim(body.url) # <<>>
                  /\ upLast'.op \in {"handleConfirm", "handleMetadataOnly"}
                  /\ upLast'.op = "handleConfirm" =>
                        /\ hasRights /\ understands
                        /\ body.confirm_rights /\ ~body.metadata_only
                  /\ upLast'.op = "handleMetadataOnly" =>
                        /\ ~body.confirm_rights /\ body.metadata_only
        /\ (upLast'.op = "onClose" \/ upLast'.result = "return") => IssuedIngest = {} ]_vars

\* C20 witness: Confirm was pressed with both boxes checked and the request for
\* the submitted URL is on its way with confirm_rights = true
C20_Witness ==
    /\ upLast.op = "handleConfirm" /\ upLast.result = "fetch"
    /\ hasRights /\ understands
    /\ ~showRightsModal /\ isUploading
    /\ Len(requests) = 1
    /\ requests[1] = [to |-> "/api/v1/ingest-url", url |-> <<"a">>,
                      confirm_rights |-> TRUE, metadata_only |-> FALSE]

\* the upload requests a step issues
IssuedUpload ==
    {i \in 1..Len(requests') :
        /\ requests'[i].to = "/api/v1/upload"
        /\ (i > Len(requests) \/ requests[i] # requests'[i])}

\* C21: onDrop issues an upload request only for a file whose MIME type is one of
\* the six allowed audio types and whose size is at most 200 MB (inclusive); for
\* any other file it sets uploadError, issues no request and leaves isUploading
\* false.
C21_UploadOnlyValidFile ==
    [][ /\ \A i \in IssuedUpload :
              LET file == requests'[i].file
              IN  /\ upLast'.op = "onDrop" /\ upLast'.file = <<file>>
                  /\ file.type \in {"audio/wav", "audio/mpeg", "audio/mp4", "audio/aac",
                                    "audio/ogg", "audio/flac"}
                  /\ file.size <= 209715200
        /\ (upLast'.op = "onDrop" /\ upLast'.file # <<>>) =>
              LET file == upLast'.file[1]
                  valid == /\ file.type \in {"audio/wav", "audio/mpeg", "audio/mp4",
                                              "audio/aac", "audio/ogg", "audio/flac"}
                           /\ file.size <= 209715200
              IN  IF valid
                  THEN IssuedUpload # {}
                  ELSE /\ uploadError' # Null
                       /\ requests' = requests
                       /\ ~isUploading' ]_vars

\* C21 witness: a FLAC file of exactly 200 MB was dropped and its upload request
\* is on its way
C21_Witness ==
    /\ upLast.op = "onDrop" /\ upLast.result = "fetch"
    /\ upLast.file = <<[type |-> "audio/flac", size |-> 209715200]>>
    /\ isUploading /\ uploadError = Null
    /\ requests = <<[to |-> "/api/v1/upload",
                     file |-> [type |-> "audio/flac", size |-> 209715200]]>>

\* C21 witness of the other case: an AIFF file was dropped and turned away
C21_RejectedWitness ==
    /\ upLast.op = "onDrop" /\ upLast.result = "rejected"
    /\ upLast.file = <<[type |-> "audio/x-aiff", size |-> 0]>>
    /\ uploadError # Null /\ ~isUploading /\ requests = <<>>

\* a step of the job page that issues a status request
IssuedStatus == Len(polls') > Len(polls) /\ polls'[Len(polls')].pc = "status"

\* a step of the job page in which a request settles
JobSettles(op) == Len(polls') <= Len(polls) /\ polls' # polls /\ jobLast'.op = op

\* C22: the timer issues a status request only when the displayed status is
\* pending or processing, and once the page displays completed or failed no
\* status request is issued unless the user presses Refresh.
C22_PollOnlyWhileUnfinished ==
    [][ IssuedStatus =>
          /\ jobLast'.op = "tick" => StatusOf(jobStatus) \in {"pending", "processing"}
          /\ StatusOf(jobStatus) \in {"completed", "failed"} => jobLast'.op = "refresh" ]_vars

\* C23: when a status fetch returned completed and the features request that
\* follows succeeds, audioFeatures is the body of the features response, no
\* error is set and the page shows the completed status.
C23_FeaturesStored ==
    [][ (JobSettles("featuresResponse") /\ jobLast'.outcome = "ok") =>
          /\ jobFeatures' = Some(FeaturesBody)
          /\ jobError' = Null
          /\ StatusView' /\ StatusOf(jobStatus') = "completed" ]_vars

\* C24: with a backend whose job status only moves forward, the displayed
\* status never goes from completed or failed back to pending or processing.
C24_DisplayedStatusMovesForward ==
    [][ StatusOf(jobStatus) \in {"completed", "failed"} =>
          StatusOf(jobStatus') \notin {"pending", "processing"} ]_vars

\* C25: a fetchJobStatus that was called after a fetch failure and ends without
\* a failure leaves the page showing the job status: the error does not
\* outlive it.
C25_ErrorClearedBySuccess ==
    [][ ( /\ JobSettles("statusResponse") \/ JobSettles("featuresResponse")
          /\ jobLast'.result = "done"
          /\ Val(jobLast'.request).afterFailure ) =>
          (jobError' = Null /\ StatusView') ]_vars

\* C26: handleGenerate navigates to /editor/{generation_id} only after an OK
\* response to the generation request; on a response that is not OK or a
\* rejected fetch it sets the error and does not navigate; either way
\* isGenerating is false and generationProgress is 0 once the request settled.
C26_NavigateOnlyAfterOk ==
    [][ /\ genRoute' # genRoute =>
              /\ genRequest # Null /\ genLast'.op = "response"
              /\ ~Val(genLast'.response).rejected /\ Val(genLast'.response).ok
              /\ genRoute' = <<"/editor", Val(genLast'.response).body.generation_id>>
        /\ (genRequest # Null /\ genRequest' = Null) =>
              /\ genLast'.op = "response"
              /\ ~isGenerating' /\ generationProgress' = 0
              /\ (Val(genLast'.response).rejected \/ ~Val(genLast'.response).ok) =>
                    /\ genError' = Some("Failed to generate lyrics. Please try again.")
                    /\ genRoute' = genRoute ]_vars

\* C26 witness: an OK response arrived and the router shows the editor of the
\* generation it named
C26_Witness ==
    /\ genLast.op = "response" /\ genLast.result = "push"
    /\ Val(genLast.response).ok
    /\ genRoute = <<"/editor", "gen-2">>
    /\ ~isGenerating /\ generationProgress = 0 /\ genError = Null

\* C26 witness of the other case: a response that was not OK left the page where
\* it was, with the error set
C26_ErrorWitness ==
    /\ genLast.op = "response" /\ genLast.result = "error"
    /\ ~Val(genLast.response).rejected /\ ~Val(genLast.response).ok
    /\ genRoute = <<"/generate", "job-1">>
    /\ ~isGenerating /\ genError # Null

\* C27: every proxy route handler answers a backend response that is not OK
\* with the backend's own status code and JSON body, answers 500 with a
\* {detail} body when forwarding throws, and never answers 200 for a backend
\* error.
C27_ProxyPassesErrors ==
    proxied.answer # Null =>
        LET response == proxied.backend
            answer == Val(proxied.answer)
        IN  /\ (proxied.request.readable /\ ~response.rejected /\ ~ResponseOk(response)) =>
                  /\ answer.status # 200
                  /\ response.isJson =>
                        answer = [status |-> response.status, json |-> TRUE,
                                  body |-> response.body]
            /\ response.rejected =>
                  /\ answer.status = 500 /\ answer.json
                  /\ DOMAIN answer.body = {"detail"}

\* C28: each time the rights dialog opens for a newly submitted URL both
\* checkboxes start unchecked, so confirm_rights = true is never sent by a
\* Confirm that is the first thing done in an opening.
C28_BoxesUncheckedOnOpen ==
    [][ /\ (~showRightsModal /\ showRightsModal') => (~hasRights' /\ ~understands')
        /\ (upLast.op = "handleUrlSubmit" /\ upLast.result = "modal") =>
              \A i \in IssuedIngest : ~requests'[i].confirm_rights ]_vars

\* C29: uploadError and uploadSuccess are never both set.
C29_ErrorXorSuccess == ~(uploadError # Null /\ uploadSuccess # Null)

\* C30: RegisterForm writes access_token, refresh_token and user to
\* localStorage only after a registration request sent with a password of at
\* least 8 characters holding an uppercase letter, a lowercase letter and a
\* digit, and a non-empty confirmPassword equal to it, and only when the
\* response to that request was OK; a submit that fails validation sends no
\* request.
C30_TokensOnlyAfterValidRegistration ==
    [][ /\ localStorage' # localStorage =>
              /\ regRequest # Null /\ regLast'.op = "response"
              /\ ~Val(regLast'.response).rejected /\ Val(regLast'.response).ok
              /\ LET body == Val(regRequest)
                 IN  /\ Len(body.password) >= 8
                     /\ \E i \in 1..Len(body.password) :
                           body.password[i] \in ClassUpper
                     /\ \E i \in 1..Len(body.password) :
                           body.password[i] \in ClassAZ
                     /\ \E i \in 1..Len(body.password) :
                           body.password[i] \in ClassDigit
                     /\ body.confirm_password # <<>>
                     /\ body.confirm_password = body.password
        /\ regRequest' # regRequest /\ regRequest' # Null =>
              /\ regLast'.op = "handleSubmit"
              /\ Len(formData.password) >= 8
              /\ \E i \in 1..Len(formData.password) : formData.password[i] \in ClassUpper
              /\ \E i \in 1..Len(formData.password) : formData.password[i] \in ClassAZ
              /\ \E i \in 1..Len(formData.password) : formData.password[i] \in ClassDigit
              /\ formData.confirmPassword # <<>>
              /\ formData.confirmPassword = formData.password ]_vars

\* C30 witness: the three keys were written after an OK response to a request
\* whose password met every requirement
C30_Witness ==
    /\ regLast.op = "response" /\ regLast.result = "stored"
    /\ localStorage = [access_token |-> <<"at">>, refresh_token |-> <<"rt">>,
                       user |-> <<"user-1">>]
    /\ formData.password = <<"B","b","2","b","b","b","b","b">>
    /\ formData.confirmPassword = formData.password
    /\ regRoute = <<"/upload">>

\* C30 witness of the other case: a submit with a password without a digit was
\* turned away and nothing was sent
C30_InvalidWitness ==
    /\ regLast.op = "handleSubmit" /\ regLast.result = "invalid"
    /\ formData.password = <<"A","a","a","a","a","a","a","a">>
    /\ formData.confirmPassword = formData.password
    /\ regRequest = Null /\ ~isLoading
    /\ regError = "Password does not meet requirements"

====
